---------------------------- MODULE Spec2Model ----------------------------
(***************************************************************************)
(* Verification model of netcap's TCP stream reassembly glue (package      *)
(* encoder): the tcpConnection stream handlers Accept, ReassembledSG,      *)
(* feedData and ReassemblyComplete, the reader channels they feed and the  *)
(* process-wide reassembly statistics.                                     *)
(*                                                                         *)
(* The assembler (package reassembly) and the stream readers are callers   *)
(* and callees whose code is outside the modelled sources: the assembler   *)
(* appears as the environment that chooses the arguments of each handler   *)
(* call, the readers as the consumer side of the two data channels.        *)
(***************************************************************************)
EXTENDS Integers, Sequences, FiniteSets, TLC

(***************************************************************************)
(* Bounds of the model.                                                    *)
(***************************************************************************)
\* capture timestamps range over 1..MaxTs
MaxTs == 2
\* capacity of a reader's data channel
ChanCap == 1
\* longest payload of one scatter-gather delivery
MaxLen == 1
\* number of Accept calls explored
MaxAccept == 3
\* number of ReassembledSG calls explored
MaxSG == 2
\* number of ReassemblyComplete calls explored
MaxComplete == 2
\* number of connections in the stream pool
MaxConns == 2
\* number of packets handed to ReassemblePacket
MaxPackets == 3
\* number of stream reader tasks alive at end-of-capture
MaxGoRoutines == 1

(***************************************************************************)
(* Values.                                                                 *)
(***************************************************************************)
\* reassembly.TCPDirClientToServer / reassembly.TCPDirServerToClient
TCPDirClientToServer == "ClientToServer"
TCPDirServerToClient == "ServerToClient"
Directions == {TCPDirClientToServer, TCPDirServerToClient}

\* the two stream readers a connection is constructed with
Readers == {1, 2}
Other(r) == IF r = 1 THEN 2 ELSE 1

Timestamps == 1..MaxTs
\* capture timestamp of the packet that created the connection: the latest,
\* so that later calls can carry earlier, equal and (once the connection's
\* first-packet time has been lowered) later timestamps
FirstTs == MaxTs

\* gopacket.Flow: a (source, destination) pair of endpoints
Reverse(f) == <<f[2], f[1]>>
InitNet == <<"10.0.0.1", "10.0.0.2">>
InitTransport == <<"5000", "80">>
NetFlows == {InitNet, Reverse(InitNet)}

\* outcome of tcp.ComputeChecksum(): value 0, a non-zero value, or an error
ChecksumOk == "zero"
ChecksumResults == {ChecksumOk, "nonzero", "error"}

\* payloads handed over by sg.Fetch(length)
RECURSIVE SeqsUpTo(_)
SeqsUpTo(n) ==
    IF n = 0 THEN {<<>>}
    ELSE SeqsUpTo(n - 1) \cup {Append(s, Len(s) + 1) : s \in {q \in SeqsUpTo(n - 1) : Len(q) = n - 1}}
Payloads == SeqsUpTo(MaxLen)

\* no channel send is pending
NoSend == [r |-> 0]
\* no handler has been called yet
NoCall == [op |-> "none"]

VARIABLES
    c,               \* the global configuration (c.IgnoreFSMerr, ...)
    streamFactory,   \* streamFactory.decodeSSH / decodeHTTP / decodePOP3
    reassemblyStats, \* the process-wide statistics bundle
    t,               \* the tcpConnection
    readers,         \* the two StreamReaders: channel, stored fragments, flags
    sending,         \* the channel send feedData is blocked in, or NoSend
    calls,           \* how many times each handler has been called
    last,            \* the assembler's latest handler call: arguments and result
    lowest           \* history: the earliest-stamped of the first packet and the
                     \* packets ReassemblyComplete was called with

\* the state of one connection and what its handlers touch
connVars == <<c, streamFactory, reassemblyStats, t, readers, sending, calls, last, lowest>>

VARIABLES
    pool,            \* the other connections of the stream pool: per connection
                     \* its fsmerr flag and (history) its FSM-rejected segments
    count,           \* the package-level packet counter
    statsMutex,      \* holder of statsMutex, or NoTask
    ing,             \* the packet-ingress task inside ReassemblePacket
    cln,             \* the task running CleanupReassembly
    helper,          \* the task started by waitForConns
    goRoutines,      \* reader tasks streamFactory.WaitGoRoutines waits for
    dein             \* the task running the HTTP encoder's teardown

\* the pipeline around the connections: ingress, end-of-capture
pipeVars == <<count, statsMutex, ing, cln, helper, goRoutines, dein>>

VARIABLES
    ipProfiles,      \* the profile registry: Items maps an address to a profile
    heap,            \* the profile objects allocated so far, with their mutex
    obs,             \* per task: its position inside getIPProfile
    snap,            \* what a holder of a returned profile last read from it
    tally            \* history: observations begun, observations returned per
                     \* address, profiles returned, and the tasks that observe

\* the profile registry and the tasks observing packets
regVars == <<ipProfiles, heap, obs, snap, tally>>

VARIABLES
    w,               \* a Writer: its mutex, its flags, its layers and the bytes
                     \* emitted
    wr,              \* per task: its position inside a Write call
    cl               \* the task calling Close: its position and what the calls
                     \* returned

\* a Writer and the tasks writing to it and closing it
wrVars == <<w, wr, cl>>

VARIABLES
    httpReqMap,      \* per stream: the requests not matched to a response
    httpResMap,      \* per stream: the responses, each with its request or none
    enc,             \* the HTTP encoder d: csv flag, record count, what it wrote,
                     \* and the position of its teardown inside the drain
    sr               \* a call of setRequest: the request and the record

\* the HTTP encoder with its request and response maps
httpVars == <<httpReqMap, httpResMap, enc, sr>>

\* the state outside the single connection t
ext == <<pool, pipeVars, regVars, wrVars, httpVars>>

vars == <<connVars, ext>>

\* connections of the stream pool
Conns == 1..MaxConns

\* the pool as constructed: no connection has seen an FSM error
PoolIdle == pool = [k \in Conns |-> [fsmerr |-> FALSE, fsmRejects |-> 0]]

NoTask == "none"
NoFlush == [called |-> FALSE]

\* the ingress task between two ReassemblePacket calls
IngIdle == [pc |-> "idle", pkt |-> [layer |-> "none"], n |-> 0, tmp |-> 0,
            doFlush |-> FALSE, flush |-> NoFlush, assembled |-> 0, result |-> "none"]

\* the pipeline before any packet and before end-of-capture, with g reader
\* tasks alive
PipeStart(g) ==
    /\ count = 0
    /\ statsMutex = NoTask
    /\ ing = IngIdle
    /\ cln = [pc |-> "idle", wait |-> FALSE, log |-> <<>>, seen |-> [read |-> FALSE]]
    /\ helper = "none"
    /\ goRoutines = g
    /\ dein = [pc |-> "idle", log |-> <<>>]

PipeIdle == PipeStart(0)

\* tasks that call getIPProfile
Tasks == {1, 2}

\* addresses: the empty one and an IP
NoAddr == ""
Addrs == {NoAddr, "10.0.0.1"}

NoProfile == 0
ObsIdle == [pc |-> "idle", addr |-> NoAddr, pkt |-> [len |-> 0], ts |-> 0, p |-> NoProfile]

\* the registry as initialised (line 42), observed by n tasks
RegStart(n) ==
    /\ ipProfiles = [Items |-> [a \in Addrs |-> NoProfile], fatal |-> FALSE]
    /\ heap = <<>>
    /\ obs = [k \in Tasks |-> ObsIdle]
    /\ snap = [read |-> FALSE]
    /\ tally = [active |-> n, begun |-> 0, done |-> [a \in Addrs |-> 0], returned |-> {}]

RegIdle == RegStart(1)

\* tasks that write to the Writer
Writers == {1, 2}

NoHolder == 0
WrIdle == [pc |-> "idle", kind |-> "none", fatal |-> FALSE, rec |-> 0, i |-> 0]

\* lines 65-169: the Writer NewWriter returns, or the panic of line 120.
\* gz and buf count the parts of out that have left the gzip and the buffered
\* layer.
NewWriter(buffer, compress, csv, writeChan) ==
    LET made == [made |-> TRUE, csv |-> csv, buffer |-> buffer, compress |-> compress,
                 IsChanWriter |-> writeChan, hasFile |-> TRUE, fileOpen |-> TRUE,
                 mu |-> NoHolder, out |-> <<>>, records |-> 0, panicked |-> FALSE,
                 gz |-> 0, gzClosed |-> FALSE, buf |-> 0]
        none == [made EXCEPT !.hasFile = FALSE, !.fileOpen = FALSE]
    IN IF csv THEN made
       ELSE IF (writeChan /\ buffer) \/ (writeChan /\ compress)
            THEN [none EXCEPT !.made = FALSE, !.panicked = TRUE]
       ELSE IF writeChan THEN none
       ELSE made

\* no Close call running or made; mark is the output and before the part of
\* it in the file when Close was called, log the layers released by the call
ClIdle ==
    [pc |-> "idle", i |-> 0, mark |-> 0, before |-> 0, log |-> <<>>, results |-> <<>>]

\* a Writer as constructed, in CSV mode or not, and no call running
WriterStart(csv) ==
    /\ w = NewWriter(FALSE, FALSE, csv, FALSE)
    /\ wr = [j \in Writers |-> WrIdle]
    /\ cl = ClIdle

WriterIdle == WriterStart(FALSE)

\* streams of the HTTP request and response maps
Streams == {1, 2}

\* the HTTP encoder before its teardown, in CSV mode or not: calls are the
\* calls of a record writer so far, errors the entries made in errorMap, todo,
\* cur, i and newRes the position of the drain in the map it ranges over,
\* made the messages read so far and pairs the requests matched to a
\* response
DStart(csv) ==
    [pc |-> "idle", csv |-> csv, numRecords |-> 0, total |-> 0, calls |-> <<>>,
     errors |-> 0, todo |-> {}, cur |-> 0, i |-> 0, newRes |-> <<>>,
     made |-> 0, pairs |-> {}]

\* the HTTP encoder and its maps as initialised (lines 840-845)
HttpStart(csv) ==
    /\ httpReqMap = [s \in Streams |-> <<>>]
    /\ httpResMap = [s \in Streams |-> <<>>]
    /\ enc = DStart(csv)
    /\ sr = [done |-> FALSE]

HttpIdle == HttpStart(FALSE)

\* the parts of the state a specification does not exercise
ExtIdle == PoolIdle /\ PipeIdle /\ RegIdle /\ WriterIdle /\ HttpIdle

(***************************************************************************)
(* State after construction.                                               *)
(***************************************************************************)
ZeroStats ==
    [rejectFsm |-> 0, rejectOpt |-> 0, rejectConnFsm |-> 0,
     missedBytes |-> 0, sz |-> 0, biggestChunkBytes |-> 0,
     ipdefrag |-> 0, totalsz |-> 0]

\* ident is built from the two flows; it is kept as its four parts
MakeIdent(n, tr) == <<n[1], n[2], tr[1], tr[2]>>

NewReader(isClient, banner) ==
    [dataChan |-> <<>>, closed |-> FALSE, data |-> <<>>, isClient |-> isClient,
     saved |-> FALSE, running |-> TRUE, banner |-> banner]

NewConnection(proto, decoder) ==
    [fsmerr |-> FALSE,
     isHTTP |-> proto = "http", isHTTPS |-> proto = "https",
     isPOP3 |-> proto = "pop3", isSSH |-> proto = "ssh",
     net |-> InitNet, transport |-> InitTransport,
     ident |-> MakeIdent(InitNet, InitTransport),
     decoder |-> decoder,
     client |-> 1, server |-> 2,
     firstPacket |-> FirstTs,
     conversationRaw |-> <<>>, conversationColored |-> <<>>,
     decoded |-> 0, streams |-> [s2c |-> <<>>, c2s |-> <<>>]]

ZeroCalls == [accept |-> 0, sg |-> 0, complete |-> 0]

(***************************************************************************)
(* Accept                                                                  *)
(***************************************************************************)
\* FsmStage with the IgnoreFSMerr test left out: an FSM rejection always drops
FsmStageAlwaysDrops(st, fsmerr, fsmOk) ==
    IF fsmOk
    THEN [stats |-> st, fsmerr |-> fsmerr, drop |-> FALSE]
    ELSE [stats |-> [st EXCEPT !.rejectFsm = @ + 1,
                               !.rejectConnFsm = IF fsmerr THEN @ ELSE @ + 1],
          fsmerr |-> TRUE,
          drop |-> TRUE]

\* FsmStage counting the connection on every rejected segment
FsmStageCountsSegments(st, fsmerr, fsmOk) ==
    IF fsmOk
    THEN [stats |-> st, fsmerr |-> fsmerr, drop |-> FALSE]
    ELSE [stats |-> [st EXCEPT !.rejectFsm = @ + 1, !.rejectConnFsm = @ + 1],
          fsmerr |-> TRUE,
          drop |-> ~c.IgnoreFSMerr]

\* the FSM stage: count the rejection, mark the connection once, drop the
\* segment unless IgnoreFSMerr is set
FsmStage(st, fsmerr, fsmOk) ==
    IF fsmOk
    THEN [stats |-> st, fsmerr |-> fsmerr, drop |-> FALSE]
    ELSE [stats |-> [st EXCEPT !.rejectFsm = @ + 1,
                               !.rejectConnFsm = IF fsmerr THEN @ ELSE @ + 1],
          fsmerr |-> TRUE,
          drop |-> ~c.IgnoreFSMerr]

\* OptStage with the early return of line 184 left out: never drops
OptStageNeverDrops(st, optOk) ==
    IF optOk
    THEN [stats |-> st, drop |-> FALSE]
    ELSE [stats |-> [st EXCEPT !.rejectOpt = @ + 1], drop |-> FALSE]

\* the option stage: count the rejection, drop the segment unless NoOptCheck
OptStage(st, optOk) ==
    IF optOk
    THEN [stats |-> st, drop |-> FALSE]
    ELSE [stats |-> [st EXCEPT !.rejectOpt = @ + 1], drop |-> ~c.NoOptCheck]

\* ChecksumStage with the c.Checksum test left out: always verified
ChecksumStageAlways(st, csum) ==
    LET accept == csum = ChecksumOk
    IN  [stats |-> IF accept THEN st ELSE [st EXCEPT !.rejectOpt = @ + 1],
         accept |-> accept]

\* the checksum stage: only with c.Checksum; an error and a non-zero value
\* both clear accept, and a cleared accept is counted in rejectOpt
ChecksumStage(st, csum) ==
    LET accept == ~(c.Checksum /\ csum # ChecksumOk)
    IN  [stats |-> IF accept THEN st ELSE [st EXCEPT !.rejectOpt = @ + 1],
         accept |-> accept]

\* the three stages in order, with the early returns of the first two
AcceptOutcome(st, fsmerr, fsmOk, optOk, csum) ==
    LET f == FsmStage(st, fsmerr, fsmOk) IN
    IF f.drop THEN [stats |-> f.stats, fsmerr |-> f.fsmerr, ret |-> FALSE]
    ELSE LET o == OptStage(f.stats, optOk) IN
         IF o.drop THEN [stats |-> o.stats, fsmerr |-> f.fsmerr, ret |-> FALSE]
         ELSE LET k == ChecksumStage(o.stats, csum) IN
              [stats |-> k.stats, fsmerr |-> f.fsmerr, ret |-> k.accept]

\* fsmOk: t.tcpstate.CheckState(tcp, dir); optOk: t.optchecker.Accept(...) = nil
Accept(fsmOk, optOk, csum) ==
    /\ sending = NoSend
    /\ calls.accept < MaxAccept
    /\ LET out == AcceptOutcome(reassemblyStats, t.fsmerr, fsmOk, optOk, csum) IN
       /\ reassemblyStats' = out.stats
       /\ t' = [t EXCEPT !.fsmerr = out.fsmerr]
       /\ last' = [op |-> "Accept", fsmOk |-> fsmOk, optOk |-> optOk,
                   csum |-> csum, ret |-> out.ret]
    /\ calls' = [calls EXCEPT !.accept = @ + 1]
    /\ UNCHANGED <<c, streamFactory, readers, sending, lowest>>
    /\ UNCHANGED ext

(***************************************************************************)
(* updateStats, feedData, ReassembledSG                                    *)
(***************************************************************************)
\* values of skip the assembler reports: -1 (no start seen), 0, a gap
SkipValues == {-1, 0, 1}

\* updateStats adding skip to missedBytes whenever it is not zero
updateStatsAnySkip(st, skip, length) ==
    [st EXCEPT !.missedBytes = IF skip # 0 THEN @ + skip ELSE @,
               !.sz = @ + length,
               !.biggestChunkBytes = IF length > @ THEN length ELSE @]

\* the statistics fed by (skip, length, saved); saved is 0 here because the
\* handlers never call KeepFrom.  The fields fed only by sg.Stats() (pkt,
\* reassembled, outOfOrder*, overlap*, biggestChunkPackets) are left to the
\* assembler's numbers and are not part of the state.
updateStats(st, skip, length) ==
    [st EXCEPT !.missedBytes = IF skip > 0 THEN @ + skip ELSE @,
               !.sz = @ + length,
               !.biggestChunkBytes = IF length > @ THEN length ELSE @]

\* make([]byte, len(data)); copy(dataCpy, data)
CopyBytes(data) == [i \in 1..Len(data) |-> data[i]]

\* StreamData stamped with the connection's first-packet time instead of the
\* delivery's capture timestamp
StreamDataRestamped(dir, data, ts) ==
    [raw |-> CopyBytes(data), ts |-> t.firstPacket, dir |-> dir]

\* &StreamData{raw: dataCpy, ac: ac, dir: dir}; of ac only the capture
\* timestamp is kept
StreamData(dir, data, ts) == [raw |-> CopyBytes(data), ts |-> ts, dir |-> dir]

\* feedData's choice of reader with the two branches exchanged
SendTargetCrossed(dir) == IF dir = TCPDirClientToServer THEN t.server ELSE t.client

\* feedData's choice of reader: client for client-to-server, else server
SendTarget(dir) == IF dir = TCPDirClientToServer THEN t.client ELSE t.server

\* the channel send: completes when the channel has room, blocks otherwise
feedData(dir, data, ts) ==
    LET r == SendTarget(dir)
        d == StreamData(dir, data, ts)
    IN  IF Len(readers[r].dataChan) < ChanCap
        THEN /\ readers' = [readers EXCEPT ![r].dataChan = Append(@, d)]
             /\ sending' = NoSend
        ELSE /\ sending' = [r |-> r, d |-> d]
             /\ UNCHANGED readers

\* SkipAllowed without the AllowMissingInit test
SkipAllowedLax(skip) == skip = -1 \/ skip = 0

\* "if skip == -1 && c.AllowMissingInit {} else if skip != 0 { return }"
SkipAllowed(skip) == (skip = -1 /\ c.AllowMissingInit) \/ skip = 0

\* "dont process stream if protocol is disabled"
ProtocolDisabled ==
    \/ t.isSSH /\ ~streamFactory.decodeSSH
    \/ t.isHTTP /\ ~streamFactory.decodeHTTP
    \/ t.isPOP3 /\ ~streamFactory.decodePOP3

\* whether ReassembledSG reaches feedData
Feeds(skip, length) ==
    /\ SkipAllowed(skip)
    /\ ~ProtocolDisabled
    /\ ~t.isHTTPS
    /\ length > 0

\* an assembler that goes on delivering data for a stream it has completed
StreamOpenAlways == TRUE

\* the assembler delivers data for a stream only until it completes it
StreamOpen == calls.complete = 0

ReassembledSG(dir, skip, data, ts) ==
    /\ sending = NoSend
    /\ StreamOpen
    /\ calls.sg < MaxSG
    /\ reassemblyStats' = updateStats(reassemblyStats, skip, Len(data))
    /\ IF Feeds(skip, Len(data))
       THEN feedData(dir, data, ts)
       ELSE UNCHANGED <<readers, sending>>
    /\ calls' = [calls EXCEPT !.sg = @ + 1]
    /\ last' = [op |-> "ReassembledSG", skip |-> skip, length |-> Len(data)]
    /\ UNCHANGED <<c, streamFactory, t, lowest>>
    /\ UNCHANGED ext

\* a blocked channel send completes once the channel has room; feedData and
\* ReassembledSG then return
feedDataResume ==
    /\ sending # NoSend
    /\ Len(readers[sending.r].dataChan) < ChanCap
    /\ readers' = [readers EXCEPT ![sending.r].dataChan = Append(@, sending.d)]
    /\ sending' = NoSend
    /\ UNCHANGED <<c, streamFactory, reassemblyStats, t, calls, last, lowest>>
    /\ UNCHANGED ext

(***************************************************************************)
(* The reader tasks: one consumer per channel.                             *)
(***************************************************************************)
\* a running reader takes the next fragment off its channel and stores it
ReaderReceive(r) ==
    /\ readers[r].running
    /\ readers[r].dataChan # <<>>
    /\ readers' = [readers EXCEPT ![r].dataChan = Tail(@),
                                  ![r].data = Append(@, Head(readers[r].dataChan))]
    /\ UNCHANGED <<c, streamFactory, reassemblyStats, t, sending, calls, last, lowest>>
    /\ UNCHANGED ext

\* a reader task ends (its decoder returned) and consumes nothing further
ReaderStop(r) ==
    /\ readers[r].running
    /\ readers' = [readers EXCEPT ![r].running = FALSE]
    /\ UNCHANGED <<c, streamFactory, reassemblyStats, t, sending, calls, last, lowest>>
    /\ UNCHANGED ext

(***************************************************************************)
(* ReassemblyComplete                                                      *)
(***************************************************************************)
\* the network flow a reader reports: the connection's flow as seen from
\* that reader's side
Network(r) == IF r = 1 THEN InitNet ELSE Reverse(InitNet)

\* the identity string with source and destination exchanged in both parts
reverseIdent(id) == <<id[2], id[1], id[4], id[3]>>

\* "for _, d := range DataSlice() { d.dir = dir }"
Retag(frags, dir) == [i \in 1..Len(frags) |-> [frags[i] EXCEPT !.dir = dir]]

\* the test guarding the flip, taking an equal timestamp for an earlier one
OlderThanFirstLax(ts) == t.firstPacket >= ts

\* "!t.firstPacket.Equal(ts) && t.firstPacket.After(ts)"
OlderThanFirst(ts) == t.firstPacket # ts /\ t.firstPacket > ts

\* the flip without the loops that fix the stored fragments' directions
FlipNoRetag(tc, rs) ==
    LET rs1 == [rs EXCEPT ![tc.client].isClient = FALSE,
                          ![tc.server].isClient = TRUE]
        tc1 == [tc EXCEPT !.ident = reverseIdent(@),
                          !.client = tc.server,
                          !.server = tc.client,
                          !.transport = Reverse(@),
                          !.net = Reverse(@)]
    IN  [t |-> tc1, readers |-> rs1]

\* the flip: SetClient on both readers, reverse ident, swap the readers,
\* reverse both flows, fix the direction of every stored fragment
Flip(tc, rs) ==
    LET rs1 == [rs EXCEPT ![tc.client].isClient = FALSE,
                          ![tc.server].isClient = TRUE]
        tc1 == [tc EXCEPT !.ident = reverseIdent(@),
                          !.client = tc.server,
                          !.server = tc.client,
                          !.transport = Reverse(@),
                          !.net = Reverse(@)]
        rs2 == [rs1 EXCEPT ![tc1.client].data = Retag(@, TCPDirClientToServer),
                           ![tc1.server].data = Retag(@, TCPDirServerToClient)]
    IN  [t |-> tc1, readers |-> rs2]

\* FlipStage without the comparison of the flow with the client's
FlipStageAnyFlow(ts, flow) ==
    IF OlderThanFirst(ts)
    THEN Flip([t EXCEPT !.firstPacket = ts], readers)
    ELSE [t |-> t, readers |-> readers]

\* FlipStage recording the earlier first-packet time only when it flips
FlipStageRecordsOnFlip(ts, flow) ==
    IF OlderThanFirst(ts) /\ ~(Network(t.client) = flow)
    THEN Flip([t EXCEPT !.firstPacket = ts], readers)
    ELSE [t |-> t, readers |-> readers]

\* lines 371-403: record the earlier first-packet time and flip when the flow
\* passed in is not the client's
FlipStage(ts, flow) ==
    IF OlderThanFirst(ts)
    THEN LET tc == [t EXCEPT !.firstPacket = ts] IN
         IF ~(Network(tc.client) = flow)
         THEN Flip(tc, readers)
         ELSE [t |-> tc, readers |-> readers]
    ELSE [t |-> t, readers |-> readers]

\* the orders sort.Sort may leave the merged fragments in: any arrangement
\* with non-decreasing timestamps (the sort is not stable)
Orders(frags) ==
    {p \in [1..Len(frags) -> 1..Len(frags)] :
        /\ \A i, j \in 1..Len(frags) : i # j => p[i] # p[j]
        /\ \A i, j \in 1..Len(frags) : i < j => frags[p[i]].ts <= frags[p[j]].ts}

RECURSIVE ConcatRaw(_)
ConcatRaw(frags) ==
    IF frags = <<>> THEN <<>> ELSE Head(frags).raw \o ConcatRaw(Tail(frags))

\* ConversationRaw without the test for an empty buffer: every call writes
\* the merged fragments to the buffers
ConversationRawRebuilds(tc, rs, p) ==
    LET all == rs[tc.client].data \o rs[tc.server].data
        merged == [i \in 1..Len(all) |-> all[p[i]]]
    IN  [tc EXCEPT !.conversationRaw = @ \o ConcatRaw(merged),
                   !.conversationColored =
                       @ \o [i \in 1..Len(merged) |->
                               <<IF merged[i].dir = TCPDirClientToServer
                                 THEN "red" ELSE "blue", merged[i].raw>>]]

\* ConversationRaw: built once, from the client's fragments followed by the
\* server's, sorted by timestamp; the colored buffer marks each fragment red
\* (client to server) or blue
ConversationRaw(tc, rs, p) ==
    IF Len(tc.conversationRaw) = 0
    THEN LET all == rs[tc.client].data \o rs[tc.server].data
             merged == [i \in 1..Len(all) |-> all[p[i]]]
         IN  [tc EXCEPT !.conversationRaw = ConcatRaw(merged),
                        !.conversationColored =
                            @ \o [i \in 1..Len(merged) |->
                                    <<IF merged[i].dir = TCPDirClientToServer
                                      THEN "red" ELSE "blue", merged[i].raw>>]]
    ELSE tc

\* lines 409-426: MarkSaved on both readers, the conversation handed to
\* saveConnection
SaveStage(tc, rs, p) ==
    [t |-> ConversationRaw(tc, rs, p),
     readers |-> [rs EXCEPT ![tc.client].saved = TRUE, ![tc.server].saved = TRUE]]

\* recovery(): the deferred handler; whether the panic keeps propagating
recovery(panicking) == FALSE

\* closing without the deferred recovery: closing a closed channel panics
CloseReaderNoRecovery(rs, r) ==
    [readers |-> [rs EXCEPT ![r].closed = TRUE], panicked |-> rs[r].closed]

\* "func() { defer recovery(); close(DataChan()) }()"
CloseReader(rs, r) ==
    [readers |-> [rs EXCEPT ![r].closed = TRUE],
     panicked |-> recovery(rs[r].closed)]

\* SniffDecoder with the test for SSH before the test for HTTP
SniffDecoderSshFirst(decoder, banner) ==
    IF decoder = "tcpReader"
    THEN CASE "SSH" \in banner -> "sshReader"
           [] "HTTP" \in banner -> "httpReader"
           [] "POP server ready" \in banner -> "pop3Reader"
           [] OTHER -> decoder
    ELSE decoder

\* the decoder picked from the server banner when it still is the tcpReader
SniffDecoder(decoder, banner) ==
    IF decoder = "tcpReader"
    THEN CASE "HTTP" \in banner -> "httpReader"
           [] "SSH" \in banner -> "sshReader"
           [] "POP server ready" \in banner -> "pop3Reader"
           [] OTHER -> decoder
    ELSE decoder

\* lines 447-452: c2s = Stream{t.net, t.transport} and s2c = Stream{
\* t.net.Reverse(), t.transport.Reverse()}
DecodeStreams(tc) ==
    [s2c |-> <<Reverse(tc.net), Reverse(tc.transport)>>,
     c2s |-> <<tc.net, tc.transport>>]

\* lines 444-477: with a decoder set, pick it and call Decode(s2c, c2s)
DecodeStage(tc, rs) ==
    IF tc.decoder # "nil"
    THEN [tc EXCEPT !.decoder = SniffDecoder(@, rs[tc.server].banner),
                    !.decoded = @ + 1,
                    !.streams = DecodeStreams(tc)]
    ELSE tc

\* the handler's stages in order; a panic that escapes a stage ends it
CompleteOutcome(ts, flow, p) ==
    LET f  == FlipStage(ts, flow)
        s  == SaveStage(f.t, f.readers, p)
        k1 == CloseReader(s.readers, s.t.client)
        k2 == IF k1.panicked THEN k1 ELSE CloseReader(k1.readers, s.t.server)
    IN  IF k2.panicked
        THEN [t |-> s.t, readers |-> k2.readers, ret |-> "panic"]
        ELSE [t |-> DecodeStage(s.t, k2.readers), readers |-> k2.readers,
              ret |-> "false"]

\* ts: ac.GetCaptureInfo().Timestamp; flow: the network flow passed in
ReassemblyComplete(ts, flow) ==
    /\ sending = NoSend
    /\ calls.complete < MaxComplete
    /\ last.op = "ReassemblyComplete" => last.ret # "panic"
    /\ LET f == FlipStage(ts, flow) IN
       \E p \in Orders(f.readers[f.t.client].data \o f.readers[f.t.server].data) :
          LET out == CompleteOutcome(ts, flow, p) IN
          /\ t' = out.t
          /\ readers' = out.readers
          /\ last' = [op |-> "ReassemblyComplete", ret |-> out.ret]
    /\ lowest' = IF ts < lowest.ts THEN [ts |-> ts, flow |-> flow] ELSE lowest
    /\ calls' = [calls EXCEPT !.complete = @ + 1]
    /\ UNCHANGED <<c, streamFactory, reassemblyStats, sending>>
    /\ UNCHANGED ext

(***************************************************************************)
(* Specification of segment acceptance: every configuration of the three   *)
(* acceptance flags, any sequence of Accept calls.                         *)
(***************************************************************************)
InitAccept ==
    /\ c \in [IgnoreFSMerr : BOOLEAN, NoOptCheck : BOOLEAN, Checksum : BOOLEAN,
              AllowMissingInit : {FALSE}]
    /\ streamFactory = [decodeSSH |-> TRUE, decodeHTTP |-> TRUE, decodePOP3 |-> TRUE]
    /\ reassemblyStats = ZeroStats
    /\ t = NewConnection("none", "tcp")
    /\ readers = [r \in Readers |-> NewReader(r = 1, {})]
    /\ sending = NoSend
    /\ calls = ZeroCalls
    /\ last = NoCall
    /\ lowest = [ts |-> FirstTs, flow |-> InitNet]
    /\ ExtIdle

NextAccept ==
    \E fsmOk \in BOOLEAN, optOk \in BOOLEAN, csum \in ChecksumResults :
        Accept(fsmOk, optOk, csum)

SpecAccept == InitAccept /\ [][NextAccept]_vars

(***************************************************************************)
(* Specification of delivery: every protocol marking of the connection,    *)
(* every setting of the decoder switches and of AllowMissingInit; the      *)
(* assembler delivers, the readers consume or stop.                        *)
(***************************************************************************)
Protocols == {"none", "http", "https", "pop3", "ssh"}

DeliveryTimestamps == {FirstTs}

InitDelivery ==
    /\ c \in [IgnoreFSMerr : {FALSE}, NoOptCheck : {FALSE}, Checksum : {FALSE},
              AllowMissingInit : BOOLEAN]
    /\ streamFactory \in [decodeSSH : BOOLEAN, decodeHTTP : BOOLEAN, decodePOP3 : BOOLEAN]
    /\ reassemblyStats = ZeroStats
    /\ \E proto \in Protocols : t = NewConnection(proto, "tcp")
    /\ readers = [r \in Readers |-> NewReader(r = 1, {})]
    /\ sending = NoSend
    /\ calls = ZeroCalls
    /\ last = NoCall
    /\ lowest = [ts |-> FirstTs, flow |-> InitNet]
    /\ ExtIdle

NextDelivery ==
    \/ \E dir \in Directions, skip \in SkipValues, data \in Payloads,
          ts \in DeliveryTimestamps :
          ReassembledSG(dir, skip, data, ts)
    \/ feedDataResume
    \/ \E r \in Readers : ReaderReceive(r)
    \/ \E r \in Readers : ReaderStop(r)

SpecDelivery == InitDelivery /\ [][NextDelivery]_vars

(***************************************************************************)
(* Specification of a connection's life: deliveries in both directions     *)
(* with any capture timestamps, the two reader tasks consuming, completion *)
(* (possibly repeated) with any timestamp and either network flow.         *)
(***************************************************************************)
\* deliveries here carry one byte (the gate on empty deliveries is SpecDelivery's)
LifePayloads == {<<1>>}

Init ==
    /\ c \in [IgnoreFSMerr : {FALSE}, NoOptCheck : {FALSE}, Checksum : {FALSE},
              AllowMissingInit : BOOLEAN]
    /\ streamFactory = [decodeSSH |-> TRUE, decodeHTTP |-> TRUE, decodePOP3 |-> TRUE]
    /\ reassemblyStats = ZeroStats
    /\ \E decoder \in {"nil", "tcpReader"} : t = NewConnection("none", decoder)
    /\ readers = [r \in Readers |-> NewReader(r = 1, IF r = 1 THEN {} ELSE {"HTTP"})]
    /\ sending = NoSend
    /\ calls = ZeroCalls
    /\ last = NoCall
    /\ lowest = [ts |-> FirstTs, flow |-> InitNet]
    /\ ExtIdle

Next ==
    \/ \E dir \in Directions, skip \in SkipValues, data \in LifePayloads,
          ts \in Timestamps :
          ReassembledSG(dir, skip, data, ts)
    \/ feedDataResume
    \/ \E r \in Readers : ReaderReceive(r)
    \/ \E ts \in Timestamps, flow \in NetFlows : ReassemblyComplete(ts, flow)

Spec == Init /\ [][Next]_vars

(***************************************************************************)
(* Specification of the decoder choice: any decoder picked by port or none,*)
(* any banner on either side, completion (possibly repeated) with any      *)
(* timestamp and either network flow.                                      *)
(***************************************************************************)
\* the decoders a connection can start with
Decoders == {"nil", "tcpReader", "httpReader", "sshReader", "pop3Reader"}

\* what a banner can contain of the texts looked for
Banners == SUBSET {"HTTP", "SSH", "POP server ready"}

InitDecode ==
    /\ c = [IgnoreFSMerr |-> FALSE, NoOptCheck |-> FALSE, Checksum |-> FALSE,
            AllowMissingInit |-> FALSE]
    /\ streamFactory = [decodeSSH |-> TRUE, decodeHTTP |-> TRUE, decodePOP3 |-> TRUE]
    /\ reassemblyStats = ZeroStats
    /\ \E decoder \in Decoders : t = NewConnection("none", decoder)
    /\ \E b1, b2 \in Banners :
          readers = [r \in Readers |-> NewReader(r = 1, IF r = 1 THEN b1 ELSE b2)]
    /\ sending = NoSend
    /\ calls = ZeroCalls
    /\ last = NoCall
    /\ lowest = [ts |-> FirstTs, flow |-> InitNet]
    /\ ExtIdle

NextDecode ==
    \E ts \in Timestamps, flow \in NetFlows : ReassemblyComplete(ts, flow)

SpecDecode == InitDecode /\ [][NextDecode]_vars

\* C31: a ReassemblyComplete call that finds a decoder set leaves it as it
\* is unless it is the tcpReader, which becomes the httpReader when the
\* server's banner contains HTTP, else the sshReader when it contains SSH,
\* else the pop3Reader when it contains POP server ready, and else stays; the
\* call then invokes the decoder once, with the connection's flows reversed
\* as the server-to-client stream and the flows themselves as the
\* client-to-server stream.  A call that finds no decoder invokes none.
C31_DecoderFromBanner ==
    [][calls'.complete = calls.complete + 1 =>
          LET banner == readers'[t'.server].banner
          IN IF t.decoder = "nil"
             THEN t'.decoder = "nil" /\ t'.decoded = t.decoded
             ELSE /\ t'.decoder =
                        IF t.decoder # "tcpReader" THEN t.decoder
                        ELSE IF "HTTP" \in banner THEN "httpReader"
                        ELSE IF "SSH" \in banner THEN "sshReader"
                        ELSE IF "POP server ready" \in banner THEN "pop3Reader"
                        ELSE "tcpReader"
                  /\ t'.decoded = t.decoded + 1
                  /\ t'.streams.c2s = <<t'.net, t'.transport>>
                  /\ t'.streams.s2c[1] = Reverse(t'.streams.c2s[1])
                  /\ t'.streams.s2c[2] = Reverse(t'.streams.c2s[2])]_vars

\* a flipping call has replaced the tcpReader by the httpReader for a server
\* whose banner contains both HTTP and SSH, and invoked it
C31_Witness ==
    /\ t.decoder = "httpReader"
    /\ t.decoded = 1
    /\ t.client = 2
    /\ {"HTTP", "SSH"} \subseteq readers[t.server].banner
    /\ t.streams.c2s[1] = Reverse(InitNet)

(***************************************************************************)
(* Specification of the conversation: deliveries of different bytes in     *)
(* both directions with any capture timestamps, the readers consuming,     *)
(* completion (possibly repeated).                                         *)
(***************************************************************************)
\* deliveries of one byte that tell the fragments apart
ConvPayloads == {<<1>>, <<2>>}

InitConversation ==
    /\ c = [IgnoreFSMerr |-> FALSE, NoOptCheck |-> FALSE, Checksum |-> FALSE,
            AllowMissingInit |-> FALSE]
    /\ streamFactory = [decodeSSH |-> TRUE, decodeHTTP |-> TRUE, decodePOP3 |-> TRUE]
    /\ reassemblyStats = ZeroStats
    /\ t = NewConnection("none", "nil")
    /\ readers = [r \in Readers |-> NewReader(r = 1, {})]
    /\ sending = NoSend
    /\ calls = ZeroCalls
    /\ last = NoCall
    /\ lowest = [ts |-> FirstTs, flow |-> InitNet]
    /\ ExtIdle

NextConversation ==
    \/ \E dir \in Directions, data \in ConvPayloads, ts \in Timestamps :
          ReassembledSG(dir, 0, data, ts)
    \/ feedDataResume
    \/ \E r \in Readers : ReaderReceive(r)
    \/ \E ts \in Timestamps, flow \in NetFlows : ReassemblyComplete(ts, flow)

SpecConversation == InitConversation /\ [][NextConversation]_vars

\* the arrangements of n things
Perms(n) == {p \in [1..n -> 1..n] : \A i, j \in 1..n : i # j => p[i] # p[j]}

\* C32: a ReassemblyComplete call, which calls ConversationRaw, leaves a
\* conversation that is not empty as it is; an empty one becomes the bytes of
\* the fragments the two readers hold, each fragment once, in an order in
\* which no fragment stands before one with an earlier capture timestamp.
C32_ConversationOnce ==
    [][calls'.complete = calls.complete + 1 =>
          IF t.conversationRaw # <<>>
          THEN t'.conversationRaw = t.conversationRaw
          ELSE LET all == readers'[1].data \o readers'[2].data
               IN \E p \in Perms(Len(all)) :
                     /\ \A i, j \in 1..Len(all) :
                           i < j => all[p[i]].ts <= all[p[j]].ts
                     /\ t'.conversationRaw =
                           ConcatRaw([i \in 1..Len(all) |-> all[p[i]]])]_vars

\* two calls have been made; the conversation holds the server's byte, which
\* was captured first, before the client's
C32_Witness ==
    /\ calls.complete = 2
    /\ t.client = 1
    /\ Len(readers[1].data) >= 1 /\ Len(readers[2].data) >= 1
    /\ readers[1].data[1].ts = 2 /\ readers[2].data[1].ts = 1
    /\ readers[1].data[1].raw = <<1>> /\ readers[2].data[1].raw = <<2>>
    /\ t.conversationRaw = <<2, 1>>

OptConsulted(a) == a.fsmOk \/ c.IgnoreFSMerr
FsmDrops(a) == ~a.fsmOk /\ ~c.IgnoreFSMerr
OptDrops(a) == OptConsulted(a) /\ ~a.optOk /\ ~c.NoOptCheck
ChecksumReached(a) == ~FsmDrops(a) /\ ~OptDrops(a)
ChecksumFails(a) == c.Checksum /\ a.csum # ChecksumOk
Inc(b) == IF b THEN 1 ELSE 0

\* C1: Accept returns false when the FSM rejects and IgnoreFSMerr is unset, or
\* when the consulted option checker rejects and NoOptCheck is unset; with the
\* ignore flag set the rejection alone does not drop the segment (it is
\* accepted when the remaining stages pass); rejectFsm grows by one on every
\* FSM rejection and rejectOpt on every option rejection, ignore flag or not.
C1_AcceptGate ==
    [][last'.op = "Accept" =>
        LET a == last' IN
        /\ FsmDrops(a) => ~a.ret
        /\ OptDrops(a) => ~a.ret
        /\ (~a.fsmOk /\ c.IgnoreFSMerr /\ a.optOk /\ ~ChecksumFails(a)) => a.ret
        /\ (~a.optOk /\ c.NoOptCheck /\ ~FsmDrops(a) /\ ~ChecksumFails(a)) => a.ret
        /\ reassemblyStats'.rejectFsm = reassemblyStats.rejectFsm + Inc(~a.fsmOk)
        /\ (OptConsulted(a) /\ ~a.optOk)
              => reassemblyStats'.rejectOpt >= reassemblyStats.rejectOpt + 1
    ]_vars

\* both stages rejected, both ignore flags set: counted twice, still accepted
C1_Witness ==
    /\ last.op = "Accept" /\ ~last.fsmOk /\ ~last.optOk
    /\ c.IgnoreFSMerr /\ c.NoOptCheck
    /\ last.ret
    /\ reassemblyStats.rejectFsm >= 1 /\ reassemblyStats.rejectOpt >= 1

\* C10: with Checksum set, a segment the FSM and the option checker pass whose
\* checksum is non-zero or cannot be computed is refused and rejectOpt grows by
\* exactly one; with Checksum unset the checksum outcome changes neither the
\* result nor rejectOpt.
C10_ChecksumReject ==
    [][last'.op = "Accept" =>
        LET a == last'
            d == reassemblyStats'.rejectOpt - reassemblyStats.rejectOpt
        IN
        /\ (c.Checksum /\ a.fsmOk /\ a.optOk /\ a.csum # ChecksumOk)
              => (~a.ret /\ d = 1)
        /\ ~c.Checksum
              => /\ a.ret = (~FsmDrops(a) /\ ~OptDrops(a))
                 /\ d = Inc(OptConsulted(a) /\ ~a.optOk)
    ]_vars

\* a corrupted checksum on an otherwise clean segment, refused and counted once
C10_Witness ==
    /\ last.op = "Accept" /\ last.fsmOk /\ last.optOk /\ last.csum = "nonzero"
    /\ c.Checksum /\ ~last.ret
    /\ calls.accept = 1 /\ reassemblyStats.rejectOpt = 1

\* C38: a single Accept call increments rejectOpt once for each stage that
\* rejects the segment, the option checker and (with Checksum set) the
\* checksum: by at most one, except that it grows by two exactly when
\* NoOptCheck is set, the consulted option checker rejects and the checksum
\* verification fails.
C38_RejectOptPerStage ==
    [][last'.op = "Accept" =>
        LET a == last'
            d == reassemblyStats'.rejectOpt - reassemblyStats.rejectOpt
        IN
        /\ d = Inc(OptConsulted(a) /\ ~a.optOk)
                + Inc(ChecksumReached(a) /\ ChecksumFails(a))
        /\ d \in 0..2
        /\ d = 2 <=> /\ c.NoOptCheck /\ c.Checksum
                     /\ OptConsulted(a) /\ ~a.optOk
                     /\ a.csum # ChecksumOk
    ]_vars

\* one Accept call, option rejection ignored and checksum bad: counted twice
C38_Witness ==
    /\ last.op = "Accept" /\ ~last.optOk /\ last.csum # ChecksumOk
    /\ c.NoOptCheck /\ c.Checksum
    /\ ~last.ret
    /\ calls.accept = 1 /\ reassemblyStats.rejectOpt = 2

\* C38 as stated: a single Accept call increments rejectOpt by at most one,
\* whatever the stages answer and whatever the flags are.
C38_AtMostOne ==
    [][last'.op = "Accept" =>
        reassemblyStats'.rejectOpt - reassemblyStats.rejectOpt <= 1]_vars

(***************************************************************************)
(* Properties of delivery.                                                 *)
(***************************************************************************)
\* a step that is one ReassembledSG call; of its arguments last' keeps skip
\* and length
IsSG == calls'.sg = calls.sg + 1

\* fragments on a reader's channel, counting the one a blocked send holds
InFlight(rs, snd, r) == Len(rs[r].dataChan) + Inc(snd # NoSend /\ snd.r = r)
\* every fragment handed to feedData and not lost: stored, queued or pending
Held(rs, snd) ==
    Len(rs[1].data) + InFlight(rs, snd, 1) + Len(rs[2].data) + InFlight(rs, snd, 2)

\* the fragments reader r has been sent, oldest first: stored, then queued,
\* then the one a blocked send holds
Sent(rs, snd, r) ==
    rs[r].data \o rs[r].dataChan \o (IF snd # NoSend /\ snd.r = r THEN <<snd.d>> ELSE <<>>)

\* C34: every ReassembledSG call, whether or not it reaches feedData, adds
\* its length to sz, adds skip to missedBytes when skip > 0 and leaves it
\* otherwise, and leaves in biggestChunkBytes the larger of its length and
\* the value before, which is 0 before the first call; no other step touches
\* the three.
C34_StatsOnEveryCall ==
    [][IF calls'.sg = calls.sg + 1
       THEN /\ reassemblyStats'.sz = reassemblyStats.sz + last'.length
            /\ reassemblyStats'.missedBytes =
                  reassemblyStats.missedBytes + (IF last'.skip > 0 THEN last'.skip ELSE 0)
            /\ reassemblyStats'.biggestChunkBytes >= last'.length
            /\ reassemblyStats'.biggestChunkBytes >= reassemblyStats.biggestChunkBytes
            /\ reassemblyStats'.biggestChunkBytes
                  \in {last'.length, reassemblyStats.biggestChunkBytes}
       ELSE /\ reassemblyStats'.sz = reassemblyStats.sz
            /\ reassemblyStats'.missedBytes = reassemblyStats.missedBytes
            /\ reassemblyStats'.biggestChunkBytes = reassemblyStats.biggestChunkBytes]_vars

\* a call with a gap and one byte on an HTTPS-marked connection was counted
\* and delivered nothing, as did another call with no bytes
C34_Witness ==
    /\ t.isHTTPS
    /\ calls.sg = 2
    /\ last.op = "ReassembledSG" /\ last.skip = 1 /\ last.length = 1
    /\ reassemblyStats.missedBytes = 1
    /\ reassemblyStats.sz = 1
    /\ reassemblyStats.biggestChunkBytes = 1
    /\ \A r \in Readers : readers[r].dataChan = <<>> /\ readers[r].data = <<>>

\* C2: a ReassembledSG call enqueues exactly one fragment on one reader channel
\* (the send done or in progress) iff (skip = 0, or skip = -1 with
\* AllowMissingInit) and the protocol is not disabled and the connection is not
\* HTTPS-marked and length > 0; otherwise readers and channels are untouched;
\* and no step of the system ever loses a fragment that was handed over.
C2_EnqueueIff ==
    /\ [][IsSG =>
            LET a == last'
                cond == /\ a.skip = 0 \/ (a.skip = -1 /\ c.AllowMissingInit)
                        /\ ~ProtocolDisabled
                        /\ ~t.isHTTPS
                        /\ a.length > 0
            IN  /\ cond => /\ Held(readers', sending') = Held(readers, sending) + 1
                           /\ \E r \in Readers :
                                /\ InFlight(readers', sending', r)
                                      = InFlight(readers, sending, r) + 1
                                /\ readers'[Other(r)] = readers[Other(r)]
                /\ ~cond => readers' = readers /\ sending' = sending
       ]_vars
    /\ [][/\ Held(readers', sending') >= Held(readers, sending)
          /\ \A r \in Readers :
                \E k \in 0..1 :
                    SubSeq(Sent(readers', sending', r), 1,
                           Len(Sent(readers', sending', r)) - k)
                       = Sent(readers, sending, r)
       ]_vars

\* a delivery with skip = -1 under AllowMissingInit reached a channel
C2_Witness ==
    /\ c.AllowMissingInit
    /\ calls.sg = 1
    /\ last.op = "ReassembledSG" /\ last.skip = -1 /\ last.length > 0
    /\ Held(readers, sending) = 1

\* C4: the fragment feedData builds for a client-to-server delivery goes to the
\* channel of the current client reader, for a server-to-client delivery to
\* the channel of the current server reader, tagged with the direction it was
\* delivered with; nothing is put on the other reader's channel.
C4_DirectionCorrect ==
    [][\A dir \in Directions, skip \in SkipValues, data \in Payloads,
          ts \in Timestamps :
          (IsSG /\ Feeds(skip, Len(data)) /\ ReassembledSG(dir, skip, data, ts)) =>
             LET r == IF dir = TCPDirClientToServer THEN t.client ELSE t.server
                 d == [raw |-> data, ts |-> ts, dir |-> dir]
             IN  /\ Sent(readers', sending', r) = Append(Sent(readers, sending, r), d)
                 /\ Sent(readers', sending', Other(r)) = Sent(readers, sending, Other(r))
                 /\ r = (IF dir = TCPDirClientToServer THEN 1 ELSE 2)
      ]_vars

\* a server-to-client fragment sits on the server reader's channel while the
\* client reader has stored a client-to-server one
C4_Witness ==
    /\ Len(readers[t.server].dataChan) = 1
    /\ readers[t.server].dataChan[1].dir = TCPDirServerToClient
    /\ Len(readers[t.client].data) = 1
    /\ readers[t.client].data[1].dir = TCPDirClientToServer
    /\ readers[t.server].data = <<>>

\* a fragment without its direction tag (which a flip rewrites)
Untagged(frags) == [i \in 1..Len(frags) |-> [raw |-> frags[i].raw, ts |-> frags[i].ts]]

NonDecreasing(frags) ==
    \A i, j \in 1..Len(frags) : i < j => frags[i].ts <= frags[j].ts

IsRC == calls'.complete = calls.complete + 1

\* C5: a ReassemblyComplete call flips the connection iff the triggering
\* timestamp is strictly earlier than the recorded first-packet time and the
\* flow passed in differs from the current client reader's network flow; with
\* an equal (or later) timestamp nothing is flipped and the first-packet time
\* stays.  The call's arguments are read off the history variable: lowest
\* changes exactly when the call's timestamp is earlier than every timestamp
\* before it, and then holds the call's timestamp and flow.
C5_FlipIff ==
    [][IsRC =>
          LET earlier == lowest' # lowest
              ts      == lowest'.ts
              flow    == lowest'.flow
          IN  /\ lowest.ts = t.firstPacket
              /\ earlier => ts < t.firstPacket
              /\ (t'.client # t.client)
                    <=> (earlier /\ flow # Network(t.client))
              /\ ~earlier =>
                    /\ t'.client = t.client /\ t'.server = t.server
                    /\ t'.ident = t.ident /\ t'.net = t.net
                    /\ t'.transport = t.transport
                    /\ t'.firstPacket = t.firstPacket
              /\ earlier => t'.firstPacket = ts
      ]_vars

\* one completion, triggered by an earlier packet of the other flow, flipped
C5_Witness ==
    /\ calls.complete = 1
    /\ t.client = 2 /\ t.server = 1
    /\ t.firstPacket < FirstTs
    /\ lowest.flow = Reverse(InitNet)

\* C39: a connection's recorded first-packet time never increases: a
\* ReassemblyComplete call sets it to the triggering packet's timestamp exactly
\* when that timestamp is strictly earlier, whether or not a flip follows, and
\* otherwise leaves it unchanged; no other step changes it.  After the call
\* the same triggering packet is not earlier than the recorded time, so
\* a repeated call with it finds nothing to record and nothing to flip.
C39_FirstPacketNeverIncreases ==
    [][/\ t'.firstPacket <= t.firstPacket
       /\ ~IsRC => t'.firstPacket = t.firstPacket
       /\ \A ts \in Timestamps, flow \in NetFlows :
             ReassemblyComplete(ts, flow) =>
                /\ t'.firstPacket = IF ts < t.firstPacket THEN ts ELSE t.firstPacket
                /\ t'.firstPacket <= ts
                /\ FlipStage(ts, flow)' = [t |-> t', readers |-> readers']
      ]_vars

\* two completions: the recorded time was lowered without a flip (the earlier
\* packet was the client's own), and the call after it flipped nothing
C39_Witness ==
    /\ calls.complete = 2
    /\ t.firstPacket < FirstTs
    /\ lowest = [ts |-> t.firstPacket, flow |-> InitNet]
    /\ t.client = 1 /\ t.ident = MakeIdent(InitNet, InitTransport)

\* C6: a flip swaps the client and server readers, reverses the stored network
\* and transport flows and the identity, marks the reader now held as client
\* as client and the other as non-client, and leaves every fragment stored in
\* the new client reader tagged client-to-server and every fragment stored in
\* the new server reader tagged server-to-client.
C6_FlipEffect ==
    [][(IsRC /\ t'.client # t.client) =>
          /\ t'.client = t.server /\ t'.server = t.client
          /\ t'.net = <<t.net[2], t.net[1]>>
          /\ t'.transport = <<t.transport[2], t.transport[1]>>
          /\ t'.ident = <<t.ident[2], t.ident[1], t.ident[4], t.ident[3]>>
          /\ readers'[t'.client].isClient
          /\ ~readers'[t'.server].isClient
          /\ \A i \in 1..Len(readers'[t'.client].data) :
                readers'[t'.client].data[i].dir = TCPDirClientToServer
          /\ \A i \in 1..Len(readers'[t'.server].data) :
                readers'[t'.server].data[i].dir = TCPDirServerToClient
          /\ \A r \in Readers :
                Untagged(readers'[r].data) = Untagged(readers[r].data)
      ]_vars

\* flipped with a stored fragment on either side, both retagged
C6_Witness ==
    /\ calls.complete = 1
    /\ t.client = 2
    /\ Len(readers[1].data) = 1 /\ readers[1].data[1].dir = TCPDirServerToClient
    /\ Len(readers[2].data) = 1 /\ readers[2].data[1].dir = TCPDirClientToServer
    /\ readers[2].isClient /\ ~readers[1].isClient

\* the identity of the connection as constructed
InitIdent == MakeIdent(InitNet, InitTransport)

\* C7: after completion the client reader is the side that sent the
\* earliest-stamped packet among the connection's first packet and the packets
\* ReassemblyComplete was called with; the identity is the initial one when
\* that side is the initial client and its reverse otherwise.
C7_ClientIsEarliestTrigger ==
    /\ Network(t.client) = lowest.flow
    /\ t.firstPacket = lowest.ts
    /\ t.server = Other(t.client)
    /\ t.net = lowest.flow
    /\ t.ident = (IF lowest.flow = InitNet
                  THEN InitIdent
                  ELSE <<InitIdent[2], InitIdent[1], InitIdent[4], InitIdent[3]>>)

\* the first packet's data and an earlier-stamped packet of the other side
\* were delivered, completion was triggered by the latter, and the connection
\* ended up reversed
C7_Witness ==
    /\ c.AllowMissingInit
    /\ calls.complete >= 1
    /\ Len(readers[1].data) = 1 /\ readers[1].data[1].ts = FirstTs
    /\ Len(readers[2].data) = 1 /\ readers[2].data[1].ts < FirstTs
    /\ lowest = [ts |-> readers[2].data[1].ts, flow |-> Reverse(InitNet)]
    /\ t.client = 2
    /\ t.ident = <<InitIdent[2], InitIdent[1], InitIdent[4], InitIdent[3]>>

\* C7 as stated: once the connection is completed, when the first packet's
\* data was followed by a packet of the other side stamped before it
\* (AllowMissingInit set), the client is that other side and the identity is
\* the reverse of the initial one.
C7_ClientIsLowerStamped ==
    (/\ c.AllowMissingInit
     /\ calls.complete >= 1
     /\ Len(readers[1].data) = 1 /\ readers[1].data[1].ts = FirstTs
     /\ Len(readers[2].data) = 1 /\ readers[2].data[1].ts < FirstTs)
    => /\ t.client = 2
       /\ t.ident = <<InitIdent[2], InitIdent[1], InitIdent[4], InitIdent[3]>>

\* C8: every ReassemblyComplete call leaves both reader channels closed, also
\* when they were closed before the call; the failed close does not end the
\* handler: it goes on to invoke the decoder (when one is set) and returns
\* false.
C8_CloseBoth ==
    [][IsRC =>
          /\ readers'[1].closed /\ readers'[2].closed
          /\ last'.ret = "false"
          /\ t'.decoded = t.decoded + Inc(t.decoder # "nil")
          /\ t.decoder # "nil" => t'.decoder # "nil"
      ]_vars

\* a second completion found both channels closed, still decoded and returned
C8_Witness ==
    /\ calls.complete = 2
    /\ last.op = "ReassemblyComplete" /\ last.ret = "false"
    /\ readers[1].closed /\ readers[2].closed
    /\ t.decoded = 2
    /\ t.decoder = "httpReader"

\* C9 as stated, in its finite form: a channel send that has not returned can
\* still return, because the channel has room or its reader is consuming.
C9_SendCanReturn ==
    sending # NoSend =>
        \/ Len(readers[sending.r].dataChan) < ChanCap
        \/ readers[sending.r].running

(***************************************************************************)
(* Accept over the connections of the stream pool: each connection has its *)
(* own fsmerr flag, the statistics are process-wide.                       *)
(***************************************************************************)
\* Accept with connection k as its receiver
AcceptConn(k, fsmOk, optOk, csum) ==
    /\ calls.accept < MaxAccept
    /\ LET out == AcceptOutcome(reassemblyStats, pool[k].fsmerr, fsmOk, optOk, csum) IN
       /\ reassemblyStats' = out.stats
       /\ pool' = [pool EXCEPT ![k].fsmerr = out.fsmerr,
                               ![k].fsmRejects = @ + (IF fsmOk THEN 0 ELSE 1)]
       /\ last' = [op |-> "Accept", conn |-> k, fsmOk |-> fsmOk, optOk |-> optOk,
                   csum |-> csum, ret |-> out.ret]
    /\ calls' = [calls EXCEPT !.accept = @ + 1]
    /\ UNCHANGED <<c, streamFactory, t, readers, sending, lowest>>
    /\ UNCHANGED <<pipeVars, regVars, wrVars, httpVars>>

\* the single connection t as constructed, nothing called on it
ConnIdle ==
    /\ streamFactory = [decodeSSH |-> TRUE, decodeHTTP |-> TRUE, decodePOP3 |-> TRUE]
    /\ reassemblyStats = ZeroStats
    /\ t = NewConnection("none", "tcp")
    /\ readers = [r \in Readers |-> NewReader(r = 1, {})]
    /\ sending = NoSend
    /\ calls = ZeroCalls
    /\ last = NoCall
    /\ lowest = [ts |-> FirstTs, flow |-> InitNet]

InitPool ==
    /\ c \in [IgnoreFSMerr : BOOLEAN, NoOptCheck : BOOLEAN, Checksum : BOOLEAN,
              AllowMissingInit : {FALSE}]
    /\ ConnIdle
    /\ PoolIdle
    /\ PipeIdle
    /\ RegIdle
    /\ WriterIdle
    /\ HttpIdle

NextPool ==
    \E k \in Conns, fsmOk \in BOOLEAN, optOk \in BOOLEAN, csum \in ChecksumResults :
        AcceptConn(k, fsmOk, optOk, csum)

SpecPool == InitPool /\ [][NextPool]_vars

RECURSIVE SumRejects(_, _)
SumRejects(p, S) ==
    IF S = {} THEN 0
    ELSE LET k == CHOOSE x \in S : TRUE IN p[k].fsmRejects + SumRejects(p, S \ {k})

\* C11: rejectConnFsm is the number of connections with at least one
\* FSM-rejected segment (a connection is counted on its first rejection only),
\* rejectFsm is the number of FSM-rejected segments, and so
\* rejectConnFsm <= rejectFsm.
C11_ConnCountedOnce ==
    /\ reassemblyStats.rejectConnFsm = Cardinality({k \in Conns : pool[k].fsmRejects > 0})
    /\ reassemblyStats.rejectFsm = SumRejects(pool, Conns)
    /\ reassemblyStats.rejectConnFsm <= reassemblyStats.rejectFsm
    /\ \A k \in Conns : pool[k].fsmerr <=> pool[k].fsmRejects > 0

\* one connection rejected twice, another never: counted once
C11_Witness ==
    /\ \E k \in Conns : pool[k].fsmRejects = 2
    /\ \E k \in Conns : pool[k].fsmRejects = 0
    /\ reassemblyStats.rejectConnFsm = 1
    /\ reassemblyStats.rejectFsm = 2

(***************************************************************************)
(* ReassemblePacket: the packet-ingress task, one step per statement group *)
(* between two lock operations.  dataBytes (line 504) is not kept.         *)
(***************************************************************************)
\* outcomes of defragger.DefragIPv4: an error, nil (more fragments needed),
\* the packet unchanged, a re-assembled packet of another length
DefragResults == {"error", "more", "same", "reassembled"}

\* the packets handed in: without a TCP layer (UDP or neither), or with one;
\* a TCP packet may lack an IPv4 layer (IPv6)
PacketKinds ==
    {[layer |-> "udp", ip4 |-> TRUE, defrag |-> "same"],
     [layer |-> "other", ip4 |-> TRUE, defrag |-> "same"],
     [layer |-> "tcp", ip4 |-> FALSE, defrag |-> "same"]}
    \cup {[layer |-> "tcp", ip4 |-> TRUE, defrag |-> d] : d \in DefragResults}

\* len(tcp.Payload) of every packet of the model
PayloadLen == 1

\* the function returns: the task is between two calls again
IngReturn(task, result) == [task EXCEPT !.pc = "idle", !.result = result]

\* lines 485-497: a packet arrives; without a TCP layer it goes to handleUDP
\* or is ignored
IngReceive(kind, ts) ==
    /\ ing.pc = "idle"
    /\ count < MaxPackets
    /\ LET fresh == [IngIdle EXCEPT !.pkt = [layer |-> kind.layer, ip4 |-> kind.ip4,
                                             defrag |-> kind.defrag, ts |-> ts]]
       IN  ing' = IF kind.layer = "tcp"
                  THEN [fresh EXCEPT !.pc = "lockCount"]
                  ELSE IngReturn(fresh, IF kind.layer = "udp" THEN "handleUDP" ELSE "ignored")
    /\ UNCHANGED <<count, statsMutex, cln, helper, goRoutines, dein>>
    /\ UNCHANGED <<connVars, pool, regVars, wrVars, httpVars>>

\* statsMutex.Lock() at lines 502, 546 and 557
IngLock ==
    /\ ing.pc \in {"lockCount", "lockTotal", "lockFlush"}
    /\ statsMutex = NoTask
    /\ statsMutex' = "ingress"
    /\ ing' = [ing EXCEPT !.pc = CASE ing.pc = "lockCount" -> "count"
                                   [] ing.pc = "lockTotal" -> "totalsz"
                                   [] ing.pc = "lockFlush" -> "doFlush"]
    /\ UNCHANGED <<count, cln, helper, goRoutines, dein>>
    /\ UNCHANGED <<connVars, pool, regVars, wrVars, httpVars>>

\* lines 503-508: count++, unlock; n remembers the count this packet made
IngCount ==
    /\ ing.pc = "count"
    /\ count' = count + 1
    /\ statsMutex' = NoTask
    /\ ing' = [ing EXCEPT !.n = count + 1,
                          !.pc = IF c.NoDefrag THEN "lockTotal" ELSE "defrag"]
    /\ UNCHANGED <<cln, helper, goRoutines, dein>>
    /\ UNCHANGED <<connVars, pool, regVars, wrVars, httpVars>>

\* lines 509-525: no IPv4 layer: return; defragmenter error: log.Fatalln;
\* nil: return; same length: go on; another length: count it and re-decode
IngDefrag ==
    /\ ing.pc = "defrag"
    /\ ing' = IF ~ing.pkt.ip4 THEN IngReturn(ing, "noIPv4")
              ELSE CASE ing.pkt.defrag = "error" -> [ing EXCEPT !.pc = "fatal", !.result = "fatal"]
                     [] ing.pkt.defrag = "more" -> IngReturn(ing, "fragment")
                     [] ing.pkt.defrag = "same" -> [ing EXCEPT !.pc = "lockTotal"]
                     [] ing.pkt.defrag = "reassembled" -> [ing EXCEPT !.pc = "ipdefragLoad"]
    /\ UNCHANGED <<count, statsMutex, cln, helper, goRoutines, dein>>
    /\ UNCHANGED <<connVars, pool, regVars, wrVars, httpVars>>

\* line 526, reassemblyStats.ipdefrag++ without the mutex: the load
IngIpdefragLoad ==
    /\ ing.pc = "ipdefragLoad"
    /\ ing' = [ing EXCEPT !.tmp = reassemblyStats.ipdefrag, !.pc = "ipdefragStore"]
    /\ UNCHANGED <<count, statsMutex, cln, helper, goRoutines, dein>>
    /\ UNCHANGED <<connVars, pool, regVars, wrVars, httpVars>>

\* line 526, the store; lines 527-545 re-decode the packet
IngIpdefragStore ==
    /\ ing.pc = "ipdefragStore"
    /\ reassemblyStats' = [reassemblyStats EXCEPT !.ipdefrag = ing.tmp + 1]
    /\ ing' = [ing EXCEPT !.pc = "lockTotal"]
    /\ UNCHANGED <<count, statsMutex, cln, helper, goRoutines, dein>>
    /\ UNCHANGED <<c, streamFactory, t, readers, sending, calls, last, lowest, pool, regVars, wrVars, httpVars>>

\* lines 547-548: totalsz += len(tcp.Payload), unlock
IngTotalsz ==
    /\ ing.pc = "totalsz"
    /\ reassemblyStats' = [reassemblyStats EXCEPT !.totalsz = @ + PayloadLen]
    /\ statsMutex' = NoTask
    /\ ing' = [ing EXCEPT !.pc = "assemble"]
    /\ UNCHANGED <<count, cln, helper, goRoutines, dein>>
    /\ UNCHANGED <<c, streamFactory, t, readers, sending, calls, last, lowest, pool, regVars, wrVars, httpVars>>

\* lines 553-555: assembler.AssembleWithContext
IngAssemble ==
    /\ ing.pc = "assemble"
    /\ ing' = [ing EXCEPT !.assembled = @ + 1, !.pc = "lockFlush"]
    /\ UNCHANGED <<count, statsMutex, cln, helper, goRoutines, dein>>
    /\ UNCHANGED <<connVars, pool, regVars, wrVars, httpVars>>

\* lines 558-559: doFlush := count%c.FlushEvery == 0, unlock
IngDoFlush ==
    /\ ing.pc = "doFlush"
    /\ statsMutex' = NoTask
    /\ LET doFlush == count % c.FlushEvery = 0
       IN  ing' = IF doFlush
                  THEN [ing EXCEPT !.doFlush = TRUE, !.pc = "flush"]
                  ELSE IngReturn(ing, "assembled")
    /\ UNCHANGED <<count, cln, helper, goRoutines, dein>>
    /\ UNCHANGED <<connVars, pool, regVars, wrVars, httpVars>>

\* lines 563-564: reassembly.FlushOptions{T: ref - ClosePendingTimeOut,
\* TC: ref - CloseInactiveTimeOut}
FlushOptions(ts) ==
    [called |-> TRUE, T |-> ts - c.ClosePendingTimeOut, TC |-> ts - c.CloseInactiveTimeOut]

\* lines 562-566: assembler.FlushWithOptions
IngFlush ==
    /\ ing.pc = "flush"
    /\ ing' = IngReturn([ing EXCEPT !.flush = FlushOptions(ing.pkt.ts)], "assembled")
    /\ UNCHANGED <<count, statsMutex, cln, helper, goRoutines, dein>>
    /\ UNCHANGED <<connVars, pool, regVars, wrVars, httpVars>>

(***************************************************************************)
(* CleanupReassembly, waitForConns and the reader tasks it waits for.      *)
(* The debug dump (lines 593-598) and the heap profile (lines 650-661)     *)
(* do not touch the modelled state.                                        *)
(***************************************************************************)
\* CleanupReassembly entering the block of lines 601-647 at the flush
ClnStartNoWait(wait) ==
    /\ cln.pc = "idle"
    /\ cln' = [cln EXCEPT !.pc = IF c.WaitForConnections \/ wait
                                 THEN "flushAll" ELSE "report",
                          !.wait = wait]
    /\ UNCHANGED <<count, statsMutex, ing, helper, goRoutines, dein>>
    /\ UNCHANGED <<connVars, pool, regVars, wrVars, httpVars>>

\* lines 591-608: with WaitForConnections or wait, waitForConns() starts the
\* helper task and the select begins; otherwise straight to the report
ClnStart(wait) ==
    /\ cln.pc = "idle"
    /\ IF c.WaitForConnections \/ wait
       THEN /\ cln' = [cln EXCEPT !.pc = "select", !.wait = wait]
            /\ helper' = "waitGoRoutines"
       ELSE /\ cln' = [cln EXCEPT !.pc = "report", !.wait = wait]
            /\ UNCHANGED helper
    /\ UNCHANGED <<count, statsMutex, ing, goRoutines, dein>>
    /\ UNCHANGED <<connVars, pool, regVars, wrVars, httpVars>>

\* lines 730-733: streamFactory.WaitGoRoutines() returns when no reader task
\* is left; the helper then offers its signal on the unbuffered channel
HelperWaited ==
    /\ helper = "waitGoRoutines"
    /\ goRoutines = 0
    /\ helper' = "send"
    /\ UNCHANGED <<count, statsMutex, ing, cln, goRoutines, dein>>
    /\ UNCHANGED <<connVars, pool, regVars, wrVars, httpVars>>

\* lines 608-611: the select receives the helper's signal
ClnSelectDone ==
    /\ cln.pc = "select"
    /\ helper = "send"
    /\ helper' = "done"
    /\ cln' = [cln EXCEPT !.pc = "flushAll", !.log = Append(@, "waited")]
    /\ UNCHANGED <<count, statsMutex, ing, goRoutines, dein>>
    /\ UNCHANGED <<connVars, pool, regVars, wrVars, httpVars>>

\* lines 612-616: time.After(DefaultReassemblyTimeout) fires
ClnSelectTimeout ==
    /\ cln.pc = "select"
    /\ cln' = [cln EXCEPT !.pc = "flushAll", !.log = Append(@, "timeout")]
    /\ UNCHANGED <<count, statsMutex, ing, helper, goRoutines, dein>>
    /\ UNCHANGED <<connVars, pool, regVars, wrVars, httpVars>>

\* lines 618-622: FlushAll on every assembler
ClnFlushAll ==
    /\ cln.pc = "flushAll"
    /\ cln' = [cln EXCEPT !.pc = "streams", !.log = Append(@, "flushAll")]
    /\ UNCHANGED <<count, statsMutex, ing, helper, goRoutines, dein>>
    /\ UNCHANGED <<connVars, pool, regVars, wrVars, httpVars>>

\* lines 624-641: the remaining streams are handed to the stream processor
\* and its workers are waited for
ClnStreams ==
    /\ cln.pc = "streams"
    /\ cln' = [cln EXCEPT !.pc = "udp", !.log = Append(@, "streamsSaved")]
    /\ UNCHANGED <<count, statsMutex, ing, helper, goRoutines, dein>>
    /\ UNCHANGED <<connVars, pool, regVars, wrVars, httpVars>>

\* lines 643-647: saveAllUDPConnections with SaveConns
ClnUDP ==
    /\ cln.pc = "udp"
    /\ cln' = [cln EXCEPT !.pc = "report",
                          !.log = IF c.SaveConns THEN Append(@, "udpSaved") ELSE @]
    /\ UNCHANGED <<count, statsMutex, ing, helper, goRoutines, dein>>
    /\ UNCHANGED <<connVars, pool, regVars, wrVars, httpVars>>

\* lines 664-667: unless Quiet, count and dataBytes are printed (under
\* errorsMapMutex, not statsMutex)
ClnReport ==
    /\ cln.pc = "report"
    /\ cln' = [cln EXCEPT !.pc = IF c.Quiet THEN "done" ELSE "lockStats",
                          !.log = IF c.Quiet THEN @ ELSE Append(@, "counts")]
    /\ UNCHANGED <<count, statsMutex, ing, helper, goRoutines, dein>>
    /\ UNCHANGED <<connVars, pool, regVars, wrVars, httpVars>>

\* line 685: statsMutex.Lock()
ClnLockStats ==
    /\ cln.pc = "lockStats"
    /\ statsMutex = NoTask
    /\ statsMutex' = "cleanup"
    /\ cln' = [cln EXCEPT !.pc = "readStats"]
    /\ UNCHANGED <<count, ing, helper, goRoutines, dein>>
    /\ UNCHANGED <<connVars, pool, regVars, wrVars, httpVars>>

\* lines 686-707: the statistics are read into the table rows
ClnReadStats ==
    /\ cln.pc = "readStats"
    /\ cln' = [cln EXCEPT !.pc = "unlockStats",
                          !.seen = [read |-> TRUE, stats |-> reassemblyStats]]
    /\ UNCHANGED <<count, statsMutex, ing, helper, goRoutines, dein>>
    /\ UNCHANGED <<connVars, pool, regVars, wrVars, httpVars>>

\* line 708: statsMutex.Unlock(); lines 710-724 print
ClnUnlockStats ==
    /\ cln.pc = "unlockStats"
    /\ statsMutex' = NoTask
    /\ cln' = [cln EXCEPT !.pc = "done"]
    /\ UNCHANGED <<count, ing, helper, goRoutines, dein>>
    /\ UNCHANGED <<connVars, pool, regVars, wrVars, httpVars>>

\* a reader task returns (its channel was closed and drained)
ReaderTaskEnds ==
    /\ goRoutines > 0
    /\ goRoutines' = goRoutines - 1
    /\ UNCHANGED <<count, statsMutex, ing, cln, helper, dein>>
    /\ UNCHANGED <<connVars, pool, regVars, wrVars, httpVars>>

(***************************************************************************)
(* The HTTP encoder's teardown (lines 950-976): final flush, then the wait *)
(* for the reader tasks.                                                   *)
(***************************************************************************)
\* line 956: assembler.FlushAll()
DeinFlushAll ==
    /\ dein.pc = "idle"
    /\ dein' = [dein EXCEPT !.pc = "waitGoRoutines", !.log = Append(@, "flushAll")]
    /\ UNCHANGED <<count, statsMutex, ing, cln, helper, goRoutines>>
    /\ UNCHANGED <<connVars, pool, regVars, wrVars, httpVars>>

\* line 975: streamFactory.WaitGoRoutines() returns when no reader task is left
DeinWaited ==
    /\ dein.pc = "waitGoRoutines"
    /\ goRoutines = 0
    /\ dein' = [dein EXCEPT !.pc = "drain", !.log = Append(@, "waited")]
    /\ UNCHANGED <<count, statsMutex, ing, cln, helper, goRoutines>>
    /\ UNCHANGED <<connVars, pool, regVars, wrVars, httpVars>>

(***************************************************************************)
(* Specification of packet ingress: ReassemblePacket on any packets, with  *)
(* the end-of-run report reading the statistics.                           *)
(***************************************************************************)
NoAcceptFlags ==
    [IgnoreFSMerr |-> FALSE, NoOptCheck |-> FALSE, Checksum |-> FALSE,
     AllowMissingInit |-> FALSE]

\* the configuration: the connection flags unset, the pipeline's settings p
Config(p) == NoAcceptFlags @@ p

InitIngress ==
    /\ \E p \in [NoDefrag : BOOLEAN, FlushEvery : {1, 2},
                 ClosePendingTimeOut : {1}, CloseInactiveTimeOut : {2},
                 WaitForConnections : {FALSE}, SaveConns : {FALSE}, Quiet : {FALSE}] :
          c = Config(p)
    /\ ConnIdle
    /\ PoolIdle
    /\ PipeIdle
    /\ RegIdle
    /\ WriterIdle
    /\ HttpIdle

NextIngress ==
    \/ \E kind \in PacketKinds, ts \in Timestamps : IngReceive(kind, ts)
    \/ IngLock
    \/ IngCount
    \/ IngDefrag
    \/ IngIpdefragLoad
    \/ IngIpdefragStore
    \/ IngTotalsz
    \/ IngAssemble
    \/ IngDoFlush
    \/ IngFlush
    \/ ClnStart(FALSE)
    \/ ClnReport
    \/ ClnLockStats
    \/ ClnReadStats
    \/ ClnUnlockStats

SpecIngress == InitIngress /\ [][NextIngress]_vars

(***************************************************************************)
(* Specification of end-of-capture: CleanupReassembly and the encoder      *)
(* teardown, with reader tasks that may still be alive.                    *)
(***************************************************************************)
InitCleanup ==
    /\ \E p \in [NoDefrag : {FALSE}, FlushEvery : {1},
                 ClosePendingTimeOut : {1}, CloseInactiveTimeOut : {2},
                 WaitForConnections : BOOLEAN, SaveConns : BOOLEAN, Quiet : BOOLEAN] :
          c = Config(p)
    /\ ConnIdle
    /\ PoolIdle
    /\ \E g \in 0..MaxGoRoutines : PipeStart(g)
    /\ RegIdle
    /\ WriterIdle
    /\ HttpIdle

NextCleanup ==
    \/ \E wait \in BOOLEAN : ClnStart(wait)
    \/ HelperWaited
    \/ ClnSelectDone
    \/ ClnSelectTimeout
    \/ ClnFlushAll
    \/ ClnStreams
    \/ ClnUDP
    \/ ClnReport
    \/ ClnLockStats
    \/ ClnReadStats
    \/ ClnUnlockStats
    \/ ReaderTaskEnds
    \/ DeinFlushAll
    \/ DeinWaited

SpecCleanup == InitCleanup /\ [][NextCleanup]_vars

\* what CleanupReassembly does after ClnStart (lines 608-724)
ClnSteps ==
    \/ ClnSelectDone
    \/ ClnSelectTimeout
    \/ ClnFlushAll
    \/ ClnStreams
    \/ ClnUDP
    \/ ClnReport
    \/ ClnLockStats
    \/ ClnReadStats
    \/ ClnUnlockStats

\* End-of-capture with every task scheduled: a task that can take its next
\* step takes it (the runtime starves no goroutine), the timer of line 612
\* fires unless the signal comes first, and every reader task returns.
SpecCleanupLive ==
    /\ SpecCleanup
    /\ WF_vars(ClnSteps)
    /\ WF_vars(HelperWaited)
    /\ WF_vars(ReaderTaskEnds)
    /\ WF_vars(DeinFlushAll \/ DeinWaited)

(***************************************************************************)
(* Properties of ingress and end-of-capture.                               *)
(***************************************************************************)
\* C12 as stated: a task that is at a read or an update of a field of
\* reassemblyStats holds statsMutex.
C12_StatsUnderMutex ==
    /\ ing.pc \in {"ipdefragLoad", "ipdefragStore", "totalsz"} => statsMutex = "ingress"
    /\ cln.pc = "readStats" => statsMutex = "cleanup"

\* what the select of CleanupReassembly can end with
WaitOutcomes == {"waited", "timeout"}

\* C13: when WaitForConnections or wait is set, CleanupReassembly first waits
\* for the reader tasks, the wait ending with their completion or with the
\* timeout, and only then flushes the assemblers; the flush is not followed by
\* a wait for the reader tasks.  The encoder teardown flushes first and then
\* waits for the reader tasks until they are done.
C13_WaitThenFlush ==
    /\ \A i \in 1..Len(cln.log) :
          /\ cln.log[i] = "flushAll" => (i = 2 /\ cln.log[1] \in WaitOutcomes)
          /\ cln.log[i] \in WaitOutcomes => i = 1
    /\ cln.pc \in {"streams", "udp"} => "flushAll" \in {cln.log[i] : i \in 1..Len(cln.log)}
    /\ (Len(cln.log) > 0 /\ cln.log[1] = "waited") => goRoutines = 0
    /\ cln.pc = "select" => ENABLED ClnSelectTimeout
    /\ \/ dein.log = <<>>
       \/ dein.log = <<"flushAll">>
       \/ dein.log = <<"flushAll", "waited">> /\ goRoutines = 0

\* C37: the helper task started by waitForConns always terminates: once
\* started, its send of the completion signal eventually completes, also when
\* the select of CleanupReassembly has timed out.
C37_HelperTerminates == (helper = "waitGoRoutines") ~> (helper = "done")

\* the wait timed out with a reader task alive, and the flush followed
C13_Witness ==
    /\ Len(cln.log) >= 2
    /\ cln.log[1] = "timeout" /\ cln.log[2] = "flushAll"
    /\ goRoutines > 0

\* C13 as stated: FlushAll comes first and the wait for the reader tasks,
\* which is bounded, only after it.
C13_FlushThenWait ==
    /\ \A i \in 1..Len(cln.log) :
          cln.log[i] \in WaitOutcomes => \E j \in 1..(i - 1) : cln.log[j] = "flushAll"
    /\ dein.pc = "waitGoRoutines" => ENABLED DeinWaited

\* C14 as stated: when ReassemblePacket has returned for a TCP packet that
\* made count a multiple of FlushEvery, FlushWithOptions was invoked for it
\* with T = ts - ClosePendingTimeOut and TC = ts - CloseInactiveTimeOut.
C14_FlushOnMultiple ==
    (/\ ing.pc = "idle"
     /\ ing.pkt.layer = "tcp"
     /\ ing.n % c.FlushEvery = 0)
    => ing.flush = [called |-> TRUE, T |-> ing.pkt.ts - c.ClosePendingTimeOut,
                    TC |-> ing.pkt.ts - c.CloseInactiveTimeOut]

\* C33 as stated: when ReassemblePacket has returned for a packet with a TCP
\* layer, the packet was passed to the assembler once, unless defragmentation
\* is enabled and the defragmenter asked for more fragments, and then it was
\* not passed on; the run is aborted only for an error of the defragmenter.
C33_TcpAssembledOnce ==
    /\ (ing.pc = "idle" /\ ing.pkt.layer = "tcp") =>
          ing.assembled = IF ~c.NoDefrag /\ ing.pkt.ip4 /\ ing.pkt.defrag = "more"
                          THEN 0 ELSE 1
    /\ ing.pc = "fatal" => ~c.NoDefrag /\ ing.pkt.ip4 /\ ing.pkt.defrag = "error"

\* C30 as stated: when CleanupReassembly has returned and SaveConns is set,
\* saveAllUDPConnections has run exactly once, whatever wait and
\* WaitForConnections are.
C30_UDPSavedWhenSet ==
    (cln.pc = "done" /\ c.SaveConns) =>
        Cardinality({i \in 1..Len(cln.log) : cln.log[i] = "udpSaved"}) = 1

(***************************************************************************)
(* getIPProfile: the profile registry.  A task's call is a sequence of     *)
(* steps; the registry map is read (line 58) and written (line 235) with   *)
(* no lock, a found profile is updated under its own mutex (lines 60-144). *)
(* Geolocation and DNS names (lines 159, 209-216) are not modelled.        *)
(***************************************************************************)
MaxObs == 3

\* packets by what getIPProfile reads of them: data length, transport layer
\* and ports, TLS client hello with its SNI, JA3 digest, DPI results
ObsPackets ==
    { [len |-> 1, tl |-> "none", src |-> 0, dst |-> 0, hello |-> FALSE, sni |-> "",
       ja3 |-> "", protos |-> {}],
      [len |-> 2, tl |-> "tcp", src |-> 1, dst |-> 2, hello |-> TRUE, sni |-> "a.example",
       ja3 |-> "h1", protos |-> {"tls"}],
      [len |-> 1, tl |-> "tcp", src |-> 1, dst |-> 2, hello |-> TRUE, sni |-> "",
       ja3 |-> "h1", protos |-> {"tls"}],
      [len |-> 1, tl |-> "udp", src |-> 2, dst |-> 1, hello |-> FALSE, sni |-> "",
       ja3 |-> "", protos |-> {"dns"}] }

Hashes == {pkt.ja3 : pkt \in ObsPackets} \ {""}

EmptyMap == [x \in {} |-> 0]

\* lines 81-88, 165-173: a port seen for the first time
NewPort(dataLen, tl) ==
    [NumTotal |-> dataLen,
     NumTCP |-> IF tl = "tcp" THEN 1 ELSE 0,
     NumUDP |-> IF tl = "udp" THEN 1 ELSE 0]

\* a known port that counts packets in NumTotal
BumpPortCountsPackets(port, dataLen, tl) ==
    [NumTotal |-> port.NumTotal + 1,
     NumTCP |-> port.NumTCP + (IF tl = "tcp" THEN 1 ELSE 0),
     NumUDP |-> port.NumUDP + (IF tl = "udp" THEN 1 ELSE 0)]

\* lines 74-79: a known port
BumpPort(port, dataLen, tl) ==
    [NumTotal |-> port.NumTotal + dataLen,
     NumTCP |-> port.NumTCP + (IF tl = "tcp" THEN 1 ELSE 0),
     NumUDP |-> port.NumUDP + (IF tl = "udp" THEN 1 ELSE 0)]

\* a port map that keeps only the port of the current packet
AddPortFresh(ports, key, dataLen, tl) == key :> NewPort(dataLen, tl)

\* lines 73-90 (and 92-109): the port map after a packet with port key
AddPort(ports, key, dataLen, tl) ==
    IF key \in DOMAIN ports
    THEN [ports EXCEPT ![key] = BumpPort(@, dataLen, tl)]
    ELSE (key :> NewPort(dataLen, tl)) @@ ports

\* lines 62-63
CountPacket(ip, ts) ==
    [ip EXCEPT !.NumPackets = @ + 1, !.TimestampLast = ts]

\* lines 65-66
AddBytes(ip, pkt) == [ip EXCEPT !.Bytes = @ + pkt.len]

\* lines 69-110
AddPorts(ip, pkt) ==
    IF pkt.tl = "none" THEN ip
    ELSE [ip EXCEPT !.SrcPorts = AddPort(@, pkt.src, pkt.len, pkt.tl),
                    !.DstPorts = AddPort(@, pkt.dst, pkt.len, pkt.tl)]

\* lines 113-118: SNIs[ch.SNI]++ for a client hello with a non-empty SNI
AddSNI(snis, pkt) ==
    IF pkt.hello /\ pkt.sni # ""
    THEN IF pkt.sni \in DOMAIN snis
         THEN [snis EXCEPT ![pkt.sni] = @ + 1]
         ELSE (pkt.sni :> 1) @@ snis
    ELSE snis

\* a profile that looks every digest up
Ja3MissingAlways(ja3Map, ja3Hash) == TRUE

\* line 127: the digest is not yet in the profile
Ja3Missing(ja3Map, ja3Hash) == ja3Hash \notin DOMAIN ja3Map

\* line 128: the description the resolver has for a digest
LookupJa3(ja3Hash) == <<"description", ja3Hash>>

\* lines 120-130: whether the update path calls LookupJa3
UpdateLooksUp(ip, pkt) == pkt.ja3 # "" /\ Ja3Missing(ip.Ja3, pkt.ja3)

AddJa3(ip, pkt) ==
    IF UpdateLooksUp(ip, pkt)
    THEN [ip EXCEPT !.Ja3 = (pkt.ja3 :> LookupJa3(pkt.ja3)) @@ @]
    ELSE ip

\* lines 133-142, 204-207: dpi results counted per protocol
AddProtocols(protos, found) ==
    [x \in DOMAIN protos \cup found |->
        IF x \in found
        THEN IF x \in DOMAIN protos
             THEN [Packets |-> protos[x].Packets + 1]
             ELSE [Packets |-> 1]
        ELSE protos[x]]

\* lines 149-233: the profile built for an address seen for the first time
NewProfile(ipAddr, pkt, ts) ==
    [Addr |-> ipAddr,
     NumPackets |-> 1,
     TimestampFirst |-> ts,
     TimestampLast |-> 0,
     Ja3 |-> IF pkt.ja3 # "" THEN pkt.ja3 :> LookupJa3(pkt.ja3) ELSE EmptyMap,
     Protocols |-> AddProtocols(EmptyMap, pkt.protos),
     Bytes |-> pkt.len,
     SrcPorts |-> IF pkt.tl # "none" THEN pkt.src :> NewPort(pkt.len, pkt.tl) ELSE EmptyMap,
     DstPorts |-> IF pkt.tl # "none" THEN pkt.dst :> NewPort(pkt.len, pkt.tl) ELSE EmptyMap,
     SNIs |-> IF pkt.hello THEN pkt.sni :> 1 ELSE EmptyMap]

\* the process has not died of a concurrent map access
Running == ~ipProfiles.fatal

RegFrame == UNCHANGED <<connVars, pool, pipeVars, wrVars, httpVars>>

\* history: data length of the packet if it lacks a transport layer
BareLen(pkt) == IF pkt.tl = "none" THEN pkt.len ELSE 0

\* line 146, 237: getIPProfile returns profile p to task k
ObsReturn(k, p) ==
    /\ obs' = [obs EXCEPT ![k] = ObsIdle]
    /\ tally' = [tally EXCEPT !.done[obs[k].addr] = @ + 1,
                              !.returned = @ \cup {p}]

\* lines 52-56: task k calls getIPProfile(ipAddr, i); packets are stamped in
\* the order they are handed over
ObsCall(k, ipAddr, pkt) ==
    /\ Running
    /\ k <= tally.active
    /\ obs[k].pc = "idle"
    /\ tally.begun < MaxObs
    /\ tally' = [tally EXCEPT !.begun = @ + 1]
    /\ obs' = [obs EXCEPT ![k] =
                 IF ipAddr = NoAddr THEN ObsIdle
                 ELSE [pc |-> "lookup", addr |-> ipAddr, pkt |-> pkt,
                       ts |-> tally.begun + 1,
                       p |-> NoProfile]]
    /\ UNCHANGED <<ipProfiles, heap, snap>>
    /\ RegFrame

\* line 58: ipProfiles.Items[ipAddr], read with no lock
ObsLookup(k) ==
    /\ Running
    /\ obs[k].pc = "lookup"
    /\ LET p == ipProfiles.Items[obs[k].addr]
       IN obs' = [obs EXCEPT ![k].p = p,
                             ![k].pc = IF p # NoProfile THEN "lock" ELSE "create"]
    /\ UNCHANGED <<ipProfiles, heap, snap, tally>>
    /\ RegFrame

\* line 60: p.Lock()
ObsLock(k) ==
    /\ Running
    /\ obs[k].pc = "lock"
    /\ heap[obs[k].p].mu = NoHolder
    /\ heap' = [heap EXCEPT ![obs[k].p].mu = k]
    /\ obs' = [obs EXCEPT ![k].pc = "count"]
    /\ UNCHANGED <<ipProfiles, snap, tally>>
    /\ RegFrame

\* lines 62-63
ObsCount(k) ==
    /\ Running
    /\ obs[k].pc = "count"
    /\ heap' = [heap EXCEPT ![obs[k].p].ip = CountPacket(@, obs[k].ts)]
    /\ obs' = [obs EXCEPT ![k].pc = "bytes"]
    /\ UNCHANGED <<ipProfiles, snap, tally>>
    /\ RegFrame

\* lines 65-66
ObsBytes(k) ==
    /\ Running
    /\ obs[k].pc = "bytes"
    /\ heap' = [heap EXCEPT ![obs[k].p].ip = AddBytes(@, obs[k].pkt),
                            ![obs[k].p].bare = @ + BareLen(obs[k].pkt)]
    /\ obs' = [obs EXCEPT ![k].pc = "ports"]
    /\ UNCHANGED <<ipProfiles, snap, tally>>
    /\ RegFrame

\* lines 69-110
ObsPorts(k) ==
    /\ Running
    /\ obs[k].pc = "ports"
    /\ heap' = [heap EXCEPT ![obs[k].p].ip = AddPorts(@, obs[k].pkt)]
    /\ obs' = [obs EXCEPT ![k].pc = "session"]
    /\ UNCHANGED <<ipProfiles, snap, tally>>
    /\ RegFrame

\* lines 113-142: SNI, JA3 and DPI protocols
ObsSession(k) ==
    /\ Running
    /\ obs[k].pc = "session"
    /\ LET pkt == obs[k].pkt
           old == heap[obs[k].p].ip
           new == [AddJa3(old, pkt) EXCEPT !.SNIs = AddSNI(@, pkt),
                                           !.Protocols = AddProtocols(@, pkt.protos)]
       IN heap' = [heap EXCEPT ![obs[k].p].ip = new,
                               ![obs[k].p].lookups =
                                   IF UpdateLooksUp(old, pkt)
                                   THEN [@ EXCEPT ![pkt.ja3] = @ + 1] ELSE @]
    /\ obs' = [obs EXCEPT ![k].pc = "unlock"]
    /\ UNCHANGED <<ipProfiles, snap, tally>>
    /\ RegFrame

\* lines 144-146: p.Unlock() and return p.ip, the profile itself
ObsUnlock(k) ==
    /\ Running
    /\ obs[k].pc = "unlock"
    /\ heap' = [heap EXCEPT ![obs[k].p].mu = NoHolder,
                            ![obs[k].p].committed = heap[obs[k].p].ip]
    /\ ObsReturn(k, obs[k].p)
    /\ UNCHANGED <<ipProfiles, snap>>
    /\ RegFrame

\* lines 149-233: a new profile object
ObsCreate(k) ==
    /\ Running
    /\ obs[k].pc = "create"
    /\ LET pkt == obs[k].pkt
           ip == NewProfile(obs[k].addr, pkt, obs[k].ts)
       IN heap' = Append(heap,
                    [ip |-> ip, mu |-> NoHolder, committed |-> ip,
                     bare |-> BareLen(pkt),
                     lookups |-> [h \in Hashes |-> IF pkt.ja3 = h THEN 1 ELSE 0]])
    /\ obs' = [obs EXCEPT ![k].p = Len(heap) + 1, ![k].pc = "install"]
    /\ UNCHANGED <<ipProfiles, snap, tally>>
    /\ RegFrame

\* whether another task is at an access of the registry map
MapAccessed(k) == \E j \in Tasks \ {k} : obs[j].pc \in {"lookup", "install"}

\* lines 235-237: ipProfiles.Items[ipAddr] = p with no lock, and return p.ip.
\* A write racing with another access of the map either takes effect or is
\* detected by the runtime, which ends the process.
ObsInstall(k) ==
    /\ Running
    /\ obs[k].pc = "install"
    /\ \E detected \in IF MapAccessed(k) THEN BOOLEAN ELSE {FALSE} :
          IF detected
          THEN /\ ipProfiles' = [ipProfiles EXCEPT !.fatal = TRUE]
               /\ UNCHANGED <<obs, tally>>
          ELSE /\ ipProfiles' = [ipProfiles EXCEPT !.Items[obs[k].addr] = obs[k].p]
               /\ ObsReturn(k, obs[k].p)
    /\ UNCHANGED <<heap, snap>>
    /\ RegFrame

\* a task that was returned profile p reads it: whether what it reads is the
\* profile as some observation left it
ReadProfile(p) ==
    /\ Running
    /\ p \in tally.returned
    /\ snap' = [read |-> TRUE, p |-> p, whole |-> heap[p].ip = heap[p].committed]
    /\ UNCHANGED <<ipProfiles, heap, obs, tally>>
    /\ RegFrame

(***************************************************************************)
(* Specification of the registry: one or two tasks observing packets, and  *)
(* holders of returned profiles reading them.                              *)
(***************************************************************************)
InitObserve ==
    /\ c = Config([NoDefrag |-> FALSE, FlushEvery |-> 1, ClosePendingTimeOut |-> 1,
                   CloseInactiveTimeOut |-> 2, WaitForConnections |-> FALSE,
                   SaveConns |-> FALSE, Quiet |-> FALSE])
    /\ ConnIdle
    /\ PoolIdle
    /\ PipeIdle
    /\ \E n \in Tasks : RegStart(n)
    /\ WriterIdle
    /\ HttpIdle

NextObserve ==
    \/ \E k \in Tasks, ipAddr \in Addrs, pkt \in ObsPackets : ObsCall(k, ipAddr, pkt)
    \/ \E k \in Tasks :
          \/ ObsLookup(k)
          \/ ObsLock(k)
          \/ ObsCount(k)
          \/ ObsBytes(k)
          \/ ObsPorts(k)
          \/ ObsSession(k)
          \/ ObsUnlock(k)
          \/ ObsCreate(k)
          \/ ObsInstall(k)
    \/ \E p \in 1..Len(heap) : ReadProfile(p)

SpecObserve == InitObserve /\ [][NextObserve]_vars

(***************************************************************************)
(* Properties of the profile registry.                                     *)
(***************************************************************************)
ProfileIds == 1..Len(heap)

\* profile objects created for address a
ProfilesOf(a) == {p \in ProfileIds : heap[p].ip.Addr = a}

AllIdle == \A k \in Tasks : obs[k].pc = "idle"

\* C15 as stated: for an address observed by concurrent tasks, one profile
\* object exists, it is the installed one, and once the observations have
\* returned its NumPackets is their number.
C15_OneProfileCountsAll ==
    \A a \in Addrs \ {NoAddr} :
        /\ Cardinality(ProfilesOf(a)) <= 1
        /\ (AllIdle /\ tally.done[a] > 0) =>
              /\ ipProfiles.Items[a] # NoProfile
              /\ heap[ipProfiles.Items[a]].ip.NumPackets = tally.done[a]

\* steps of the update path between p.Lock() and p.Unlock()
InUpdate == {"count", "bytes", "ports", "session", "unlock"}

\* C16 as stated: the updates of a packet are made by the holder of the
\* profile's mutex, and what a holder of a returned profile reads is the
\* profile as some observation left it.
C16_NoPartialExposure ==
    /\ \A k \in Tasks : obs[k].pc \in InUpdate => heap[obs[k].p].mu = k
    /\ snap.read => snap.whole

Maps == {"SrcPorts", "DstPorts", "Ja3", "SNIs", "Protocols"}

\* the step returns an observation of task k from the update path
ReturnsUpdate(k) == obs[k].pc = "unlock" /\ obs'[k].pc = "idle"

\* the step returns an observation of task k from the create path
ReturnsCreate(k) == obs[k].pc = "install" /\ obs'[k].pc = "idle"

\* C17: no step lowers a profile's NumPackets or Bytes or removes a key from
\* one of its maps; an observation that returns has added 1 to NumPackets
\* and the packet's data length to Bytes (from 0 for a new profile); and when
\* the observations are made one after the other, a profile once installed
\* for an address stays the one installed.
C17_GrowOnly ==
    [][ /\ Len(heap') >= Len(heap)
        /\ \A p \in ProfileIds :
              /\ heap'[p].ip.NumPackets >= heap[p].ip.NumPackets
              /\ heap'[p].ip.Bytes >= heap[p].ip.Bytes
              /\ \A f \in Maps : DOMAIN heap[p].ip[f] \subseteq DOMAIN heap'[p].ip[f]
        /\ \A k \in Tasks :
              /\ ReturnsUpdate(k) =>
                    LET was == heap[obs[k].p].committed
                        now == heap'[obs[k].p].ip
                    IN /\ now.NumPackets = was.NumPackets + 1
                       /\ now.Bytes = was.Bytes + obs[k].pkt.len
              /\ ReturnsCreate(k) =>
                    /\ heap'[obs[k].p].ip.NumPackets = 1
                    /\ heap'[obs[k].p].ip.Bytes = obs[k].pkt.len
        /\ tally.active = 1 =>
              \A a \in Addrs : ipProfiles.Items[a] # NoProfile =>
                                  ipProfiles'.Items[a] = ipProfiles.Items[a]
      ]_vars

\* three observations, one after the other, have grown one installed profile
\* to two source ports
C17_Witness ==
    /\ tally.active = 1
    /\ \E a \in Addrs :
          /\ ipProfiles.Items[a] # NoProfile
          /\ heap[ipProfiles.Items[a]].ip.NumPackets = 3
          /\ Cardinality(DOMAIN heap[ipProfiles.Items[a]].ip.SrcPorts) = 2

\* C40 as stated: the creation path and the update path of a profile count
\* SNIs the same way: no profile's SNI map has the empty string as a key, and
\* every observation that returns has added one to the count of the SNI its
\* client hello carries (from an empty map for a new profile) and nothing
\* else, so that each count is the number of observed client hellos carrying
\* that SNI.
C40_SNIsCountedAlike ==
    [][ /\ \A p \in 1..Len(heap') : "" \notin DOMAIN heap'[p].ip.SNIs
        /\ \A k \in Tasks :
              /\ ReturnsUpdate(k) =>
                    heap'[obs[k].p].ip.SNIs =
                        AddSNI(heap[obs[k].p].committed.SNIs, obs[k].pkt)
              /\ ReturnsCreate(k) =>
                    heap'[obs[k].p].ip.SNIs = AddSNI(EmptyMap, obs[k].pkt)
      ]_vars

RECURSIVE SumTotal(_)
SumTotal(ports) ==
    IF DOMAIN ports = {} THEN 0
    ELSE LET key == CHOOSE x \in DOMAIN ports : TRUE
         IN ports[key].NumTotal + SumTotal([x \in DOMAIN ports \ {key} |-> ports[x]])

\* C18: whenever no observation is inside a profile's update, its Bytes less
\* the sum of NumTotal over SrcPorts, and less the sum over DstPorts, is the
\* data length of the observed packets that had no transport layer (0 when
\* every packet had one).
C18_BytesMatchPorts ==
    \A p \in ProfileIds :
        heap[p].mu = NoHolder =>
            /\ heap[p].ip.Bytes - SumTotal(heap[p].ip.SrcPorts) = heap[p].bare
            /\ heap[p].ip.Bytes - SumTotal(heap[p].ip.DstPorts) = heap[p].bare

\* a profile at rest that was updated with packets on a known port and with
\* a packet without transport layer
C18_Witness ==
    \E p \in ProfileIds :
        /\ heap[p].mu = NoHolder
        /\ heap[p].ip.NumPackets = 3
        /\ heap[p].bare > 0
        /\ \E key \in DOMAIN heap[p].ip.SrcPorts :
              heap[p].ip.SrcPorts[key].NumTCP = 2

\* C19: for every profile and digest LookupJa3 was called at most once, and
\* it was called exactly when the digest is in the profile's Ja3 map, which
\* holds the description looked up.
C19_Ja3LookupOnce ==
    \A p \in ProfileIds : \A h \in Hashes :
        /\ heap[p].lookups[h] <= 1
        /\ heap[p].lookups[h] = 1 <=> h \in DOMAIN heap[p].ip.Ja3
        /\ h \in DOMAIN heap[p].ip.Ja3 => heap[p].ip.Ja3[h] = LookupJa3(h)

\* a profile that has seen three packets with the same digest
C19_Witness ==
    \E p \in ProfileIds : \E h \in Hashes :
        /\ heap[p].lookups[h] = 1
        /\ "tls" \in DOMAIN heap[p].ip.Protocols
        /\ heap[p].ip.Protocols["tls"].Packets = 3
        /\ heap[p].mu = NoHolder

(***************************************************************************)
(* Writer: the record-writing calls of writer.go.  A record is emitted as  *)
(* a sequence of parts: a length prefix and a body for a delimited         *)
(* protobuf record, one row for a CSV record.  Write errors, which make    *)
(* Write and WriteHeader panic, are not modelled.                          *)
(***************************************************************************)
MaxRecords == 3

\* the calls a task can make
WriteOps == {"Write", "WriteHeader", "WriteProto", "WriteCSV"}

\* lines 204-236: the method Write and WriteHeader delegate to
Kind(op) ==
    CASE op = "Write" -> IF w.csv THEN "WriteCSV" ELSE "WriteProto"
      [] op = "WriteHeader" -> IF w.csv THEN "WriteCSVHeader" ELSE "WriteProto"
      [] OTHER -> op

\* lines 79-117, 157: a CSV writer has no aWriter, any other no csvWriter
NilWriter(kind) == IF kind = "WriteProto" THEN w.csv ELSE ~w.csv

\* lines 204-236: Write and WriteHeader panic on an error, the methods they
\* delegate to return it
Fatal(op) == op \in {"Write", "WriteHeader"}

\* lines 137-147, 251-273: the layer a record goes to first is closed: the
\* gzip layer after its Close, or the file when neither layer is above it
LayerClosed(x) ==
    \/ x.compress /\ x.gzClosed
    \/ ~x.compress /\ ~x.buffer /\ ~x.fileOpen

\* the parts a record is emitted in
Parts(kind) == IF kind = "WriteProto" THEN <<"prefix", "body">> ELSE <<"row">>

\* a mutex anyone can take
MutexFreeAlways(mu) == TRUE

\* lines 177, 188, 195: w.mu.Lock() proceeds when nobody holds the mutex
MutexFree(mu) == mu = NoHolder

WrFrame == UNCHANGED <<connVars, pool, pipeVars, regVars, httpVars, cl>>

\* task j calls one of the writing methods for a new record
WrCall(j, op) ==
    /\ w.made
    /\ ~w.panicked
    /\ wr[j].pc = "idle"
    /\ w.records < MaxRecords
    /\ w' = [w EXCEPT !.records = @ + 1]
    /\ wr' = [wr EXCEPT ![j] = [pc |-> "lock", kind |-> Kind(op), fatal |-> Fatal(op),
                                rec |-> w.records + 1, i |-> 0]]
    /\ WrFrame

\* lines 177, 188, 195: w.mu.Lock()
WrLock(j) ==
    /\ ~w.panicked
    /\ wr[j].pc = "lock"
    /\ MutexFree(w.mu)
    /\ w' = [w EXCEPT !.mu = j]
    /\ wr' = [wr EXCEPT ![j].pc = "emit", ![j].i = 1]
    /\ WrFrame

\* lines 179, 190, 197: the next part of the record goes out; a call on a nil
\* writer panics; a write to a closed layer fails, and the error is returned
\* or, in Write and WriteHeader, panics
WrEmit(j) ==
    /\ ~w.panicked
    /\ wr[j].pc = "emit"
    /\ IF NilWriter(wr[j].kind) \/ (LayerClosed(w) /\ wr[j].fatal)
       THEN /\ w' = [w EXCEPT !.panicked = TRUE]
            /\ UNCHANGED wr
       ELSE IF LayerClosed(w)
       THEN /\ wr' = [wr EXCEPT ![j].pc = "unlock"]
            /\ UNCHANGED w
       ELSE /\ w' = [w EXCEPT !.out = Append(@, [rec |-> wr[j].rec,
                                                 part |-> Parts(wr[j].kind)[wr[j].i]])]
            /\ wr' = [wr EXCEPT ![j] = IF wr[j].i = Len(Parts(wr[j].kind))
                                       THEN [@ EXCEPT !.pc = "unlock"]
                                       ELSE [@ EXCEPT !.i = @ + 1]]
    /\ WrFrame

\* lines 178, 189, 196: the deferred w.mu.Unlock(), and return
WrUnlock(j) ==
    /\ ~w.panicked
    /\ wr[j].pc = "unlock"
    /\ w' = [w EXCEPT !.mu = NoHolder]
    /\ wr' = [wr EXCEPT ![j] = WrIdle]
    /\ WrFrame

(***************************************************************************)
(* Specification of the Writer: two tasks writing records to one Writer.   *)
(***************************************************************************)
InitWriter ==
    /\ c = Config([NoDefrag |-> FALSE, FlushEvery |-> 1, ClosePendingTimeOut |-> 1,
                   CloseInactiveTimeOut |-> 2, WaitForConnections |-> FALSE,
                   SaveConns |-> FALSE, Quiet |-> FALSE])
    /\ ConnIdle
    /\ PoolIdle
    /\ PipeIdle
    /\ RegIdle
    /\ \E csv \in BOOLEAN : WriterStart(csv)
    /\ HttpIdle

NextWriter ==
    \/ \E j \in Writers, op \in WriteOps : WrCall(j, op)
    \/ \E j \in Writers :
          \/ WrLock(j)
          \/ WrEmit(j)
          \/ WrUnlock(j)

SpecWriter == InitWriter /\ [][NextWriter]_vars

\* the part of record rec
Chunk(rec, part) == [rec |-> rec, part |-> part]

\* C20: at most one task is between Lock and Unlock, and in the bytes
\* emitted every body directly follows the length prefix of its record and
\* every length prefix is directly followed by its body, or is the last part
\* emitted and belongs to the record the holder of the mutex is emitting.
C20_RecordsWhole ==
    /\ Cardinality({j \in Writers : wr[j].pc \in {"emit", "unlock"}}) <= 1
    /\ \A i \in 1..Len(w.out) :
          /\ w.out[i].part = "body" =>
                i > 1 /\ w.out[i - 1] = Chunk(w.out[i].rec, "prefix")
          /\ w.out[i].part = "prefix" =>
                IF i < Len(w.out)
                THEN w.out[i + 1] = Chunk(w.out[i].rec, "body")
                ELSE \E j \in Writers : /\ w.mu = j
                                        /\ wr[j].pc = "emit"
                                        /\ wr[j].rec = w.out[i].rec

\* a task has emitted the length prefix of its record and not yet the body
\* while the other task waits for the mutex, after a whole record
C20_Witness ==
    /\ Len(w.out) = 3
    /\ w.out[3].part = "prefix"
    /\ \E j \in Writers : wr[j].pc = "lock"

(***************************************************************************)
(* The life of a Writer: NewWriter, records, Close (src/writer.go).        *)
(***************************************************************************)
\* how many times Close is called
MaxCloses == 2

\* the task calling Close, as a holder of the mutex
Closer == 3

\* no Writer constructed yet
NoWriter == [NewWriter(FALSE, FALSE, FALSE, FALSE) EXCEPT !.made = FALSE]

\* lines 139, 146: what has entered the buffered layer or, without one, the
\* file: with compression what has left the gzip layer, else all output
BufIn(x) == IF x.compress THEN x.gz ELSE Len(x.out)

\* lines 137-146: what has reached the file
InFile(x) == IF x.buffer THEN x.buf ELSE BufIn(x)

\* Close with the buffered layer flushed before the gzip layer is closed
CloseStepsBufferFirst(compress, buffer) ==
    (IF buffer THEN <<"buffer">> ELSE <<>>)
        \o (IF compress THEN <<"lock", "gzip", "unlock">> ELSE <<>>)
        \o <<"file">>

\* lines 264-274: the steps of Close in order
CloseSteps(compress, buffer) ==
    (IF compress THEN <<"lock", "gzip", "unlock">> ELSE <<>>)
        \o (IF buffer THEN <<"buffer">> ELSE <<>>)
        \o <<"file">>

\* a gzip writer that fails when flushed or closed after Close
GzipFailsWhenClosed(closed) == closed

\* lines 251-262: Flush and Close of a gzip writer fail; a closed gzip writer
\* accepts both and does nothing
GzipFails(closed) == FALSE

\* lines 242-249: Flush of the buffered writer fails: it has data to write
\* and the file below is closed
FlushFails(x) == BufIn(x) > x.buf /\ ~x.fileOpen

ClFrame == UNCHANGED <<connVars, pool, pipeVars, regVars, httpVars, wr>>

\* the step of Close the task is at
ClStep == IF cl.pc = "run" THEN CloseSteps(w.compress, w.buffer)[cl.i] ELSE "none"

\* the task moves to the next step of Close
ClAdvance(log) == [cl EXCEPT !.i = @ + 1, !.log = log]

\* line 65: NewWriter is called
NewW(buffer, compress, csv, writeChan) ==
    /\ ~w.made
    /\ ~w.panicked
    /\ w' = NewWriter(buffer, compress, csv, writeChan)
    /\ UNCHANGED cl
    /\ ClFrame

\* lines 139, 146: the gzip layer passes compressed output on
GzSpill ==
    /\ w.made /\ ~w.panicked
    /\ w.compress
    /\ w.gz < Len(w.out)
    /\ w' = [w EXCEPT !.gz = @ + 1]
    /\ UNCHANGED cl
    /\ ClFrame

\* line 137: the buffered layer is full and writes to the file
BufSpill ==
    /\ w.made /\ ~w.panicked
    /\ w.buffer
    /\ w.fileOpen
    /\ w.buf < BufIn(w)
    /\ w' = [w EXCEPT !.buf = @ + 1]
    /\ UNCHANGED cl
    /\ ClFrame

\* line 264: Close is called on a Writer that has a file
ClCall ==
    /\ w.made /\ ~w.panicked
    /\ w.hasFile
    /\ cl.pc = "idle"
    /\ Len(cl.results) < MaxCloses
    /\ cl' = [cl EXCEPT !.pc = "run", !.i = 1, !.mark = Len(w.out),
                         !.before = InFile(w), !.log = <<>>]
    /\ UNCHANGED w
    /\ ClFrame

\* line 266: w.mu.Lock()
ClLock ==
    /\ ~w.panicked
    /\ ClStep = "lock"
    /\ MutexFree(w.mu)
    /\ w' = [w EXCEPT !.mu = Closer]
    /\ cl' = ClAdvance(cl.log)
    /\ ClFrame

\* lines 267, 251-262: CloseGzipWriters flushes and closes the gzip layer
\* and panics on an error
ClGzip ==
    /\ ~w.panicked
    /\ ClStep = "gzip"
    /\ IF GzipFails(w.gzClosed)
       THEN /\ w' = [w EXCEPT !.panicked = TRUE]
            /\ UNCHANGED cl
       ELSE /\ w' = [w EXCEPT !.gz = Len(w.out), !.gzClosed = TRUE]
            /\ cl' = ClAdvance(Append(cl.log, "gzip"))
    /\ ClFrame

\* line 268: w.mu.Unlock()
ClUnlock ==
    /\ ~w.panicked
    /\ ClStep = "unlock"
    /\ w' = [w EXCEPT !.mu = NoHolder]
    /\ cl' = ClAdvance(cl.log)
    /\ ClFrame

\* lines 270-272, 242-249: FlushWriters flushes the buffered layer and
\* panics on an error
ClBuffer ==
    /\ ~w.panicked
    /\ ClStep = "buffer"
    /\ IF FlushFails(w)
       THEN /\ w' = [w EXCEPT !.panicked = TRUE]
            /\ UNCHANGED cl
       ELSE /\ w' = [w EXCEPT !.buf = BufIn(w)]
            /\ cl' = ClAdvance(Append(cl.log, "buffer"))
    /\ ClFrame

\* the (name, size) CloseFile reports: the size of the file
CloseFile(x) == [name |-> "file", size |-> InFile(x)]

\* line 273: CloseFile closes the file and Close returns what it reports
ClFile ==
    /\ ~w.panicked
    /\ ClStep = "file"
    /\ w' = [w EXCEPT !.fileOpen = FALSE]
    /\ cl' = [cl EXCEPT !.pc = "idle", !.i = 0, !.log = Append(@, "file"),
                         !.results = Append(@, CloseFile(w))]
    /\ ClFrame

(***************************************************************************)
(* Specification of the life of a Writer: it is constructed with any       *)
(* flags, two tasks write records, then Close is called, twice at most.    *)
(***************************************************************************)
InitClose ==
    /\ c = Config([NoDefrag |-> FALSE, FlushEvery |-> 1, ClosePendingTimeOut |-> 1,
                   CloseInactiveTimeOut |-> 2, WaitForConnections |-> FALSE,
                   SaveConns |-> FALSE, Quiet |-> FALSE])
    /\ ConnIdle
    /\ PoolIdle
    /\ PipeIdle
    /\ RegIdle
    /\ w = NoWriter
    /\ wr = [j \in Writers |-> WrIdle]
    /\ cl = ClIdle
    /\ HttpIdle

NextClose ==
    \/ \E buffer, compress, csv, writeChan \in BOOLEAN :
          NewW(buffer, compress, csv, writeChan)
    \/ \E j \in Writers, op \in WriteOps : cl = ClIdle /\ WrCall(j, op)
    \/ \E j \in Writers :
          \/ WrLock(j)
          \/ WrEmit(j)
          \/ WrUnlock(j)
    \/ GzSpill
    \/ BufSpill
    \/ (\A j \in Writers : wr[j].pc = "idle") /\ ClCall
    \/ ClLock
    \/ ClGzip
    \/ ClUnlock
    \/ ClBuffer
    \/ ClFile

SpecClose == InitClose /\ [][NextClose]_vars

(***************************************************************************)
(* Specification of a Writer closed while it is written to: a Writer of    *)
(* protobuf records to a file, with any layers; the tasks call the writing *)
(* methods and Close at any time.                                          *)
(***************************************************************************)
NextCloseRace ==
    \/ \E buffer, compress \in BOOLEAN : NewW(buffer, compress, FALSE, FALSE)
    \/ \E j \in Writers, op \in WriteOps : WrCall(j, op)
    \/ \E j \in Writers :
          \/ WrLock(j)
          \/ WrEmit(j)
          \/ WrUnlock(j)
    \/ GzSpill
    \/ BufSpill
    \/ ClCall
    \/ ClLock
    \/ ClGzip
    \/ ClUnlock
    \/ ClBuffer
    \/ ClFile

SpecCloseRace == InitClose /\ [][NextCloseRace]_vars

\* C36 as stated: from the moment Close has taken the mutex or released a
\* layer until it returns, no task is inside a writing method between Lock
\* and Unlock.
C36_CloseExcludesWrites ==
    (cl.pc = "run" /\ (w.mu = Closer \/ cl.log # <<>>)) =>
        \A j \in Writers : wr[j].pc \notin {"emit", "unlock"}

\* C21 as stated: whatever the csv flag, NewWriter called in channel mode with
\* buffering or compression returns no Writer.
C21_ChannelModeRejected ==
    (w.IsChanWriter /\ (w.buffer \/ w.compress)) => ~w.made

(***************************************************************************)
(* The HTTP encoder: the readers fill the request and response maps, the   *)
(* teardown drains them (src/unnamed/part_004, lines 827-846, 950-1112).   *)
(***************************************************************************)
\* how many requests and responses the readers parse
MaxHttp == 4

\* a nil *http.Request
NoReq == 0

HttpFrame == UNCHANGED <<connVars, pool, pipeVars, regVars, wrVars, sr>>

\* the position of the first response of the sequence that has no request,
\* or 0
FirstOpen(resArr) ==
    IF \E k \in 1..Len(resArr) : resArr[k].Request = NoReq
    THEN CHOOSE k \in 1..Len(resArr) :
            /\ resArr[k].Request = NoReq
            /\ \A l \in 1..(k - 1) : resArr[l].Request /= NoReq
    ELSE 0

\* a reader has parsed a request on stream s: it goes to the first response
\* of the stream that waits for its request, or else into httpReqMap
HttpRequest(s) ==
    /\ dein.pc = "idle"
    /\ enc.made < MaxHttp
    /\ LET id == enc.made + 1
           k == FirstOpen(httpResMap[s])
       IN IF k > 0
          THEN /\ httpResMap' = [httpResMap EXCEPT ![s][k].Request = id]
               /\ enc' = [enc EXCEPT !.made = id,
                                     !.pairs = @ \cup {<<id, httpResMap[s][k].id>>}]
               /\ UNCHANGED httpReqMap
          ELSE /\ httpReqMap' = [httpReqMap EXCEPT ![s] = Append(@, id)]
               /\ enc' = [enc EXCEPT !.made = id]
               /\ UNCHANGED httpResMap
    /\ HttpFrame

\* a reader has parsed a response on stream s: it takes the first request
\* waiting in httpReqMap for the stream, or has none, and goes into httpResMap
HttpResponse(s) ==
    /\ dein.pc = "idle"
    /\ enc.made < MaxHttp
    /\ LET id == enc.made + 1
       IN IF httpReqMap[s] /= <<>>
          THEN /\ httpResMap' = [httpResMap EXCEPT ![s] =
                                    Append(@, [id |-> id, Request |-> Head(httpReqMap[s])])]
               /\ httpReqMap' = [httpReqMap EXCEPT ![s] = Tail(@)]
               /\ enc' = [enc EXCEPT !.made = id,
                                     !.pairs = @ \cup {<<Head(httpReqMap[s]), id>>}]
          ELSE /\ httpResMap' = [httpResMap EXCEPT ![s] =
                                    Append(@, [id |-> id, Request |-> NoReq])]
               /\ enc' = [enc EXCEPT !.made = id]
               /\ UNCHANGED httpReqMap
    /\ HttpFrame

\* the streams a map has entries for
Keys(map) == {s \in Streams : map[s] /= <<>>}

\* a drain that takes no response for paired
PairedNever(res) == FALSE

\* line 1005: res.Request != nil
Paired(res) == res.Request /= NoReq

\* lines 1010-1020: the writer the response loop calls
ResWriter(csv) == IF csv THEN "csv" ELSE "proto"

\* line 1062: the writer the loop over the leftover requests calls
ReqWriter(csv) == "proto"

\* a call of a record writer for request req and response res
Call(req, res, via, ok) == [req |-> req, res |-> res, via |-> via, ok |-> ok]

\* lines 1008-1020, 1061-1065: the record is counted, then written; a failed
\* write is entered in errorMap
Emit(e, req, res, via, ok) ==
    [e EXCEPT !.numRecords = @ + 1,
              !.calls = Append(@, Call(req, res, via, ok)),
              !.errors = IF ok THEN @ ELSE @ + 1]

\* lines 978-988: the teardown has waited for the readers; it takes the two
\* mutexes and goes to done when both maps are empty
DrainStart ==
    /\ dein.pc = "drain"
    /\ enc.pc = "idle"
    /\ enc' = IF Keys(httpResMap) \cup Keys(httpReqMap) = {}
              THEN [enc EXCEPT !.pc = "done"]
              ELSE [enc EXCEPT !.pc = "res", !.todo = Keys(httpResMap)]
    /\ UNCHANGED <<httpReqMap, httpResMap>>
    /\ HttpFrame

\* lines 991, 1053: range takes the next stream of the map, in any order
DrainRange(s) ==
    /\ enc.pc \in {"res", "req"}
    /\ enc.cur = 0
    /\ s \in enc.todo
    /\ enc' = [enc EXCEPT !.cur = s, !.i = 1, !.newRes = <<>>]
    /\ UNCHANGED <<httpReqMap, httpResMap>>
    /\ HttpFrame

\* lines 996-1026: the next response of the stream: with its request it is
\* written as one record, without it is kept in newRes
DrainRes(ok) ==
    /\ enc.pc = "res"
    /\ enc.cur /= 0
    /\ enc.i <= Len(httpResMap[enc.cur])
    /\ LET res == httpResMap[enc.cur][enc.i]
       IN enc' = IF Paired(res)
                 THEN [Emit(enc, res.Request, res.id, ResWriter(enc.csv), ok)
                          EXCEPT !.total = @ + 1, !.i = @ + 1]
                 ELSE [enc EXCEPT !.newRes = Append(@, res), !.i = @ + 1]
    /\ UNCHANGED <<httpReqMap, httpResMap>>
    /\ HttpFrame

\* line 1029: httpResMap[s] = newRes
DrainResEnd ==
    /\ enc.pc = "res"
    /\ enc.cur /= 0
    /\ enc.i > Len(httpResMap[enc.cur])
    /\ httpResMap' = [httpResMap EXCEPT ![enc.cur] = enc.newRes]
    /\ enc' = [enc EXCEPT !.cur = 0, !.i = 0, !.newRes = <<>>, !.todo = @ \ {enc.cur}]
    /\ UNCHANGED httpReqMap
    /\ HttpFrame

\* lines 1030-1053: the response loop is over; the loop over the leftover
\* responses is commented out and the loop over the requests begins
DrainRequests ==
    /\ enc.pc = "res"
    /\ enc.cur = 0
    /\ enc.todo = {}
    /\ enc' = [enc EXCEPT !.pc = "req", !.todo = Keys(httpReqMap)]
    /\ UNCHANGED <<httpReqMap, httpResMap>>
    /\ HttpFrame

\* lines 1055-1066: the next request of the stream is written as a record
DrainReq(ok) ==
    /\ enc.pc = "req"
    /\ enc.cur /= 0
    /\ enc.i <= Len(httpReqMap[enc.cur])
    /\ enc' = [Emit(enc, httpReqMap[enc.cur][enc.i], 0, ReqWriter(enc.csv), ok)
                  EXCEPT !.total = @ + 1, !.i = @ + 1]
    /\ UNCHANGED <<httpReqMap, httpResMap>>
    /\ HttpFrame

\* line 1067: the requests of the stream are through
DrainReqEnd ==
    /\ enc.pc = "req"
    /\ enc.cur /= 0
    /\ enc.i > Len(httpReqMap[enc.cur])
    /\ enc' = [enc EXCEPT !.cur = 0, !.i = 0, !.todo = @ \ {enc.cur}]
    /\ UNCHANGED <<httpReqMap, httpResMap>>
    /\ HttpFrame

\* lines 1068-1073: the loop is over and the two mutexes are released
DrainDone ==
    /\ enc.pc = "req"
    /\ enc.cur = 0
    /\ enc.todo = {}
    /\ enc' = [enc EXCEPT !.pc = "done"]
    /\ UNCHANGED <<httpReqMap, httpResMap>>
    /\ HttpFrame

(***************************************************************************)
(* Specification of the HTTP encoder: the readers parse requests and       *)
(* responses, then the teardown flushes, waits and drains the maps; any    *)
(* write of a record may fail.                                             *)
(***************************************************************************)
InitDrain ==
    /\ c = Config([NoDefrag |-> FALSE, FlushEvery |-> 1, ClosePendingTimeOut |-> 1,
                   CloseInactiveTimeOut |-> 2, WaitForConnections |-> FALSE,
                   SaveConns |-> FALSE, Quiet |-> FALSE])
    /\ ConnIdle
    /\ PoolIdle
    /\ PipeIdle
    /\ RegIdle
    /\ WriterIdle
    /\ \E csv \in BOOLEAN : HttpStart(csv)

NextDrain ==
    \/ \E s \in Streams : HttpRequest(s)
    \/ \E s \in Streams : HttpResponse(s)
    \/ DeinFlushAll
    \/ DeinWaited
    \/ DrainStart
    \/ \E s \in Streams : DrainRange(s)
    \/ \E ok \in BOOLEAN : DrainRes(ok)
    \/ DrainResEnd
    \/ DrainRequests
    \/ \E ok \in BOOLEAN : DrainReq(ok)
    \/ DrainReqEnd
    \/ DrainDone

SpecDrain == InitDrain /\ [][NextDrain]_vars

\* the calls of a record writer that succeeded
Written == {k \in 1..Len(enc.calls) : enc.calls[k].ok}

\* C24 as stated: the record count of the HTTP encoder is the number of
\* record writes that succeeded.
C24_CountIsSuccessfulWrites ==
    enc.numRecords = Cardinality(Written)

\* C25 as stated: once the write of a record has failed no further record is
\* written.
C25_FailureIsFatal ==
    [][enc.errors > 0 => enc'.calls = enc.calls]_vars

\* C26 as stated: when the drain is done, every response left without a
\* request has been written as a response-only record and every request left
\* without a response as a request-only record.
C26_UnmatchedEmitted ==
    enc.pc = "done" =>
        \A s \in Streams :
            /\ \A k \in 1..Len(httpResMap[s]) :
                  ~Paired(httpResMap[s][k]) =>
                      \E n \in 1..Len(enc.calls) :
                          /\ enc.calls[n].res = httpResMap[s][k].id
                          /\ enc.calls[n].req = NoReq
            /\ \A k \in 1..Len(httpReqMap[s]) :
                  \E n \in 1..Len(enc.calls) :
                      /\ enc.calls[n].req = httpReqMap[s][k]
                      /\ enc.calls[n].res = 0

\* the calls of a record writer that carry request req
CallsOf(req) == {n \in 1..Len(enc.calls) : enc.calls[n].req = req}

\* C27: the drain never writes a request twice, and when it is done, for
\* every request matched to a response it has written exactly one record,
\* the one that pairs the request with its response.
C27_EachRequestOnce ==
    /\ \A req \in 1..enc.made : Cardinality(CallsOf(req)) <= 1
    /\ enc.pc = "done" =>
          \A pair \in enc.pairs :
              /\ Cardinality(CallsOf(pair[1])) = 1
              /\ \A n \in CallsOf(pair[1]) : enc.calls[n].res = pair[2]

\* the drain is done after two requests were matched to their responses, one
\* of which had arrived before its request
C27_Witness ==
    /\ enc.pc = "done"
    /\ Cardinality(enc.pairs) = 2
    /\ \E pair \in enc.pairs : pair[2] < pair[1]
    /\ Len(enc.calls) = 2

\* C28 as stated: with CSV configured every record of the drain is written
\* through the CSV writer, and without it through the length-prefixing
\* writer.
C28_WriterFollowsCsv ==
    \A n \in 1..Len(enc.calls) :
        enc.calls[n].via = IF enc.csv THEN "csv" ELSE "proto"

(***************************************************************************)
(* setRequest (src/unnamed/part_004, lines 1115-1126): strings are         *)
(* sequences of characters.                                                *)
(***************************************************************************)
\* the longest UserAgent, Referer and URL
MaxStr == 2

\* the characters of the strings: the comma, a character of the token and
\* any other
Chars == {",", "(", "x"}

\* the strings of at most n characters
RECURSIVE Strings(_)
Strings(n) ==
    IF n = 0 THEN {<<>>}
    ELSE Strings(n - 1)
            \cup {Append(str, ch) : str \in {x \in Strings(n - 1) : Len(x) = n - 1},
                                     ch \in Chars}

\* the string "(comma)"
Token == <<"(", "c", "o", "m", "m", "a", ")">>

\* strings.Replace(str, ",", "(comma)", n): the first n commas are replaced,
\* all of them when n < 0
RECURSIVE Replace(_, _)
Replace(str, n) ==
    IF str = <<>> THEN <<>>
    ELSE IF Head(str) = "," /\ n /= 0
         THEN Token \o Replace(Tail(str), n - 1)
         ELSE <<Head(str)>> \o Replace(Tail(str), n)

\* an escaping that replaces the first comma only
EscapeFirst(str) == Replace(str, 1)

\* lines 1119, 1120, 1122: strings.Replace(..., ",", "(comma)", -1)
Escape(str) == Replace(str, -1)

\* the fields setRequest escapes
Escaped == {"UserAgent", "Referer", "URL"}

\* lines 1114-1125: setRequest fills the record from the request
SetRequest ==
    /\ ~sr.done
    /\ sr' = [sr EXCEPT !.done = TRUE,
                        !.h = [f \in Escaped |-> Escape(sr.req[f])]]
    /\ UNCHANGED <<connVars, pool, pipeVars, regVars, wrVars,
                   httpReqMap, httpResMap, enc>>

(***************************************************************************)
(* Specification of setRequest: one call for any request.                  *)
(***************************************************************************)
InitRequest ==
    /\ c = Config([NoDefrag |-> FALSE, FlushEvery |-> 1, ClosePendingTimeOut |-> 1,
                   CloseInactiveTimeOut |-> 2, WaitForConnections |-> FALSE,
                   SaveConns |-> FALSE, Quiet |-> FALSE])
    /\ ConnIdle
    /\ PoolIdle
    /\ PipeIdle
    /\ RegIdle
    /\ WriterIdle
    /\ httpReqMap = [s \in Streams |-> <<>>]
    /\ httpResMap = [s \in Streams |-> <<>>]
    /\ enc = DStart(FALSE)
    /\ \E req \in [Escaped -> Strings(MaxStr)] :
          sr = [done |-> FALSE, req |-> req, h |-> [f \in Escaped |-> <<>>]]

NextRequest == SetRequest

SpecRequest == InitRequest /\ [][NextRequest]_vars

\* the commas among the first n characters of str
Commas(str, n) == Cardinality({k \in 1..n : str[k] = ","})

\* C29: after setRequest, in each of UserAgent, Referer and URL the record
\* holds no comma, is longer than the request's value by six characters for
\* each of its commas, and holds at the place of each character of the
\* request's value, moved by six for every comma before it, that character,
\* or the token (comma) if it is a comma.
C29_CommasEscaped ==
    sr.done =>
        \A f \in Escaped :
            LET in == sr.req[f]
                out == sr.h[f]
            IN /\ \A k \in 1..Len(out) : out[k] /= ","
               /\ Len(out) = Len(in) + 6 * Commas(in, Len(in))
               /\ \A k \in 1..Len(in) :
                     LET p == k + 6 * Commas(in, k - 1)
                     IN IF in[k] = ","
                        THEN SubSeq(out, p, p + 6) = Token
                        ELSE out[p] = in[k]

\* setRequest has run for a request with two commas in the UserAgent, a
\* comma after another character in the URL and no comma in the Referer
C29_Witness ==
    /\ sr.done
    /\ sr.req["UserAgent"] = <<",", ",">>
    /\ sr.req["URL"] = <<"(", ",">>
    /\ sr.req["Referer"] = <<"x">>
    /\ Len(sr.h["UserAgent"]) = 14

\* the layers of a Writer in reverse of their construction
Layers(x) ==
    (IF x.compress THEN <<"gzip">> ELSE <<>>)
        \o (IF x.buffer THEN <<"buffer">> ELSE <<>>)
        \o <<"file">>

\* C22: when Close has returned it has released the gzip layer, if any, then
\* the buffered layer, if any, then the file, the file is closed, everything
\* written before the call is in the file, and the size reported is the size
\* of the file.
C22_CloseReleasesInOrder ==
    (cl.pc = "idle" /\ Len(cl.results) >= 1) =>
        /\ cl.log = Layers(w)
        /\ ~w.fileOpen
        /\ cl.mark <= InFile(w)
        /\ InFile(w) = Len(w.out)
        /\ cl.results[1].size = Len(w.out)

\* Close has returned for a Writer with compression and buffering that had
\* emitted two records of which nothing was in the file when Close was called
C22_Witness ==
    /\ cl.pc = "idle"
    /\ Len(cl.results) = 1
    /\ w.compress /\ w.buffer
    /\ cl.mark >= 2
    /\ cl.before = 0

=============================================================================
